---- MODULE Spec2Model ----
(***************************************************************************)
(* State-machine model of the bzzz coordination fabric:                    *)
(*   - the hash-chained HypercoreLog (package logging),                    *)
(*   - the task polling / claim engine (package github, HiveIntegration),  *)
(*   - the meta-discussion handler with escalation (package github).       *)
(* Each subsystem has its own specification over the shared variables.     *)
(***************************************************************************)
EXTENDS Integers, Sequences, FiniteSets, Bags, TLC

VARIABLES
    \* ---- HypercoreLog, one per node
    entries,          \* [Nodes -> Seq(LogEntry)]      h.entries
    headHash,         \* [Nodes -> hash]               h.headHash
    replicators,      \* [Nodes -> SUBSET Peers]       keys of h.replicators
    mutex,            \* [Nodes -> Free or a thread]   writer side of h.mutex
    lpc,              \* [LogThreads -> position inside Append]
    larg,             \* [LogThreads -> arguments of the running Append]
    lentry,           \* [LogThreads -> the local variable `entry` of Append]
    lret,             \* value returned by the last log operation
    integrityFailed,  \* TRUE once a VerifyIntegrity call has returned an error
    tampered          \* number of writes made through pointers returned by Get

VARIABLES
    \* ---- tracker side (GitHub issues, Hive API)
    assignee,         \* [Items -> assignee login or NoAssignee]   issue.Assignee
    pulls,            \* items for which a pull request was opened
    statusUpdates,    \* [node, item, status] of the HiveClient.UpdateTaskStatus calls made
    \* ---- HiveIntegration, one per node
    repositories,     \* [Nodes -> SUBSET Projects]    keys of hi.repositories
    pc,               \* [Nodes -> position of taskPollingLoop]
    task,             \* [Nodes -> item held by claimAndExecuteTask, 0 once it returned nil]
    claimErr,         \* [Nodes -> error returned by the last Client.ClaimTask]
    wpc,              \* [Nodes -> [Items -> position of the executeTask goroutine]]
    dynamicTopics     \* [Nodes -> SUBSET Items]       joined per-task topics

VARIABLES
    \* ---- Integration (meta-discussion side of a node)
    activeDiscussions, \* [Items -> Conversation]  i.activeDiscussions
    hpc,               \* [Handlers -> position in handleMetaDiscussion]
    hconvo,            \* [Handlers -> item of the conversation the handler holds]
    hresp,             \* [Handlers -> text last returned to the handler by GenerateResponse]
    received,          \* number of meta-discussion messages delivered so far
    published,         \* [Items -> messages the node published, by kind]
    escalations,       \* [Items -> triggerHumanEscalation goroutines started, not yet run]
    posts              \* [Items -> POSTs sent to the escalation webhook]

VARIABLES
    \* ---- PubSub of a node and the gossipsub network around it
    inflight,          \* messages queued in the node's subscriptions
    invoked,           \* set of the messages handed to a handler so far
    outbox,            \* envelopes the node has published: set of [topic, issue]
    pubSeq,            \* number of messages published so far (by anyone)
    rejected           \* number of messages refused by signature validation

VARIABLES
    \* ---- startup of a node: the capability memo
    capFile,           \* content of capabilities-<nodeID>.json, as decoded JSON
    lastRun            \* the last startup: what it compared and what it did

VARIABLES
    \* ---- mDNS discovery of a node
    peersChan,         \* the buffered channel notifee.peersChan, oldest first
    connected,         \* peers the host is connected to
    discoveryClosed,   \* TRUE once Close has cancelled ctx and closed the channel
    lastFound,         \* the peer of the last HandlePeerFound call
    lastOutcome        \* which case of its select that call took

VARIABLES
    \* ---- MetaCoordinator and DependencyDetector, one of each per node
    activeSessions,    \* [Nodes -> [SessionIds -> CoordinationSession]]  mc.activeSessions
    broadcasts,        \* [node, session, message_type] of the envelopes broadcastToSession sent
    knownTasks,        \* [Nodes -> set of TaskContext]   dd.knownTasks
    announced,         \* the dependency_detected envelopes published: set of [from, dep]
    depInflight        \* dependency_detected envelopes on their way: set of [to, from, dep]

pubVars == <<inflight, invoked, outbox, pubSeq, rejected>>
startVars == <<capFile, lastRun>>
discVars == <<peersChan, connected, discoveryClosed, lastFound, lastOutcome>>
coordVars == <<activeSessions, broadcasts>>
depVars == <<knownTasks, announced, depInflight>>
sessVars == <<coordVars, depVars>>

VARIABLES
    \* ---- the process of a node: its context and its long-lived loops
    cancelled,         \* the context handed to every component is cancelled
    loops,             \* [LoopNames -> "waiting" | "working" | "stopped"]
    \* ---- reasoning: the last model selection made
    selection,
    \* ---- receive loops of a node running handleCoordinationResponse
    rpc,               \* [ReceiveLoops -> position in the handler]
    rmsg,              \* [ReceiveLoops -> the response being handled]
    sessionEnvelopes,  \* resolution and escalation envelopes broadcast, in order
    \* ---- workers of tasks named by project and issue number
    joinedTopics,      \* issue numbers n with bzzz/meta/issue/<n> in p.dynamicTopics
    topicWorkers,      \* [Tasks -> "none" | "running" | "done"]
    \* ---- executor.ExecuteTask for one task, and its caller
    exec

loopVars == <<cancelled, loops>>
raceVars == <<rpc, rmsg, sessionEnvelopes>>
topicVars == <<joinedTopics, topicWorkers>>
procVars == <<loopVars, selection, raceVars, topicVars, exec>>
hostVars == <<startVars, discVars, sessVars, procVars>>
metaVars == <<activeDiscussions, hpc, hconvo, hresp, received, published, escalations, posts>>
logAux == <<replicators, mutex, lpc, larg, lentry, lret, integrityFailed, tampered>>
logVars == <<entries, headHash, logAux>>
trackerVars == <<assignee, pulls, statusUpdates>>
nodeVars == <<repositories, pc, task, claimErr, wpc, dynamicTopics>>
claimVars == <<trackerVars, nodeVars>>

vars == <<logVars, claimVars, metaVars, pubVars, hostVars>>

----------------------------------------------------------------------------
(* Bounds and finite domains                                               *)

MaxLog == 3
MaxTamper == 2
NumItems == 2
MaxTasks == 1
MaxMsgs == 3
MaxSeqMsgs == 10
MaxPub == 2
\* Most dependency_detected envelopes published in a run
MaxAnnounced == 3

Nodes == {"n1", "n2"}
Peers == {"p1"}
LogThreads == {"t1", "t2"}
LogNode == "n1"
Items == 1..NumItems
Projects == {1}
Times == {0}
LogTypes == {"task_claimed", "task_progress", "task_failed", "task_completed", "escalation", "peer_joined"}
AppendTypes == {"task_claimed", "escalation"}
LogData == {[task_id |-> 1], [task_id |-> 2]}

Free == "free"
NoArg == [type |-> "none", data |-> [task_id |-> 0]]

----------------------------------------------------------------------------
(* HypercoreLog: pure parts                                                *)

\* headHash of a new log, and PrevHash of entry 0: the empty string.
EmptyHash == <<>>

\* sha256 over the JSON of the entry copied without Hash and Signature;
\* the digest is modelled by the serialized fields themselves (collision-free).
calculateEntryHash(entry) ==
    <<entry.index, entry.timestamp, entry.author, entry.type, entry.data, entry.prev_hash>>

\* sha256 of "peerID:Hash:Index"
createSignature(peerID, entry) == <<peerID, entry.hash, entry.index>>

NoEntry ==
    [index |-> 0, timestamp |-> 0, author |-> "none", type |-> "none",
     data |-> [task_id |-> 0], hash |-> EmptyHash, prev_hash |-> EmptyHash,
     signature |-> <<"none", EmptyHash, 0>>]

\* The index Append gives the new entry: uint64(len(h.entries)).
IndexWrong(es) == Len(es) + 1
NextIndex(es) == Len(es)

\* The entry Append builds under the lock (index, fields, hash, signature).
BuildEntry(es, head, peerID, logType, data, now) ==
    LET e0 == [index |-> NextIndex(es), timestamp |-> now, author |-> peerID,
               type |-> logType, data |-> data, prev_hash |-> head,
               hash |-> EmptyHash, signature |-> <<"none", EmptyHash, 0>>]
        e1 == [e0 EXCEPT !.hash = calculateEntryHash(e0)]
    IN  [e1 EXCEPT !.signature = createSignature(peerID, e1)]

\* h.entries = append(h.entries, entry)
StoreOverwrite(es, entry) ==
    IF es = <<>> THEN <<entry>> ELSE [es EXCEPT ![Len(es)] = entry]
StoreEntry(es, entry) == Append(es, entry)

\* h.headHash = entryHash
HeadStale(head, entry) == head
NewHead(head, entry) == entry.hash

\* The whole body of Append on a log value (used where Append runs as one step).
AppendLog(es, head, peerID, logType, data, now) ==
    LET e == BuildEntry(es, head, peerID, logType, data, now)
    IN  [entries |-> StoreEntry(es, e), headHash |-> NewHead(head, e), entry |-> e]

NilErr == [err |-> "nil", index |-> -1]

\* VerifyIntegrity: the loop over h.entries, carrying prevHash; returns at the
\* first failing check.
RECURSIVE VerifyFrom(_, _, _)
VerifyFrom(es, i, prevHash) ==
    IF i > Len(es) THEN NilErr
    ELSE IF es[i].prev_hash # prevHash
         THEN [err |-> "prev_hash mismatch", index |-> i - 1]
    ELSE IF es[i].hash # calculateEntryHash(es[i])
         THEN [err |-> "hash mismatch", index |-> i - 1]
    ELSE VerifyFrom(es, i + 1, es[i].hash)

\* A verifier that keeps scanning and reports the last failing entry.
RECURSIVE VerifyLast(_, _, _, _)
VerifyLast(es, i, prevHash, found) ==
    IF i > Len(es) THEN found
    ELSE IF es[i].prev_hash # prevHash
         THEN VerifyLast(es, i + 1, es[i].hash, [err |-> "prev_hash mismatch", index |-> i - 1])
    ELSE IF es[i].hash # calculateEntryHash(es[i])
         THEN VerifyLast(es, i + 1, es[i].hash, [err |-> "hash mismatch", index |-> i - 1])
    ELSE VerifyLast(es, i + 1, es[i].hash, found)
VerifyIntegrityLast(es) == VerifyLast(es, 1, EmptyHash, NilErr)

VerifyIntegrity(es) == VerifyFrom(es, 1, EmptyHash)

\* Get(index): entry or "not found"
GetEntry(es, index) ==
    IF index >= Len(es) THEN [err |-> "not found", val |-> <<>>]
    ELSE [err |-> "nil", val |-> <<es[index + 1]>>]

\* GetRange(start, end)
GetRangeOf(es, start, end) ==
    IF start >= Len(es) THEN [err |-> "out of range", val |-> <<>>]
    ELSE LET e == IF end > Len(es) THEN Len(es) ELSE end
         IN  IF start > e THEN [err |-> "invalid range", val |-> <<>>]
             ELSE [err |-> "nil", val |-> SubSeq(es, start + 1, e)]

\* GetEntriesByType / GetEntriesByAuthor
EntriesByType(es, logType) == LET k(e) == e.type = logType IN SelectSeq(es, k)
EntriesByAuthor(es, author) == LET k(e) == e.author = author IN SelectSeq(es, k)

----------------------------------------------------------------------------
(* Tracker and per-node claim engine (HiveIntegration)                     *)

NoAssignee == "none"
\* ClaimTask assigns every claimed issue to the repository owner.
githubAssignee == "anthonyrawlins"

ProjectOf(i) == 1
TaskType(i) == IF i = 1 THEN "feature" ELSE "bug"
\* The label priority-N that CreateTask puts on an issue; a larger number is
\* more urgent.
LabelPriority(i) == IF i = 1 THEN 5 ELSE 2
\* Client.issueToTask copies id, number, title, body, state, dates, labels and
\* assignee; Task.Priority keeps its zero value.
issueToTaskPriority(i) == 0
Capabilities(n) == IF n = "n1" THEN {"general"} ELSE {"feature"}

\* NewHiveIntegration / Start: nothing discovered, polling loop at its ticker.
ClaimInit ==
    /\ assignee = [i \in Items |-> NoAssignee]
    /\ pulls = {}
    /\ statusUpdates = {}
    /\ repositories = [n \in Nodes |-> {}]
    /\ pc = [n \in Nodes |-> "wait"]
    /\ task = [n \in Nodes |-> 0]
    /\ claimErr = [n \in Nodes |-> "nil"]
    /\ wpc = [n \in Nodes |-> [i \in Items |-> "none"]]
    /\ dynamicTopics = [n \in Nodes |-> {}]

----------------------------------------------------------------------------
(* HypercoreLog: operations on the log of LogNode, called from LogThreads  *)

\* NewHypercoreLog
LogInit ==
    /\ entries = [n \in Nodes |-> <<>>]
    /\ headHash = [n \in Nodes |-> EmptyHash]
    /\ replicators = [n \in Nodes |-> {}]
    /\ mutex = [n \in Nodes |-> Free]
    /\ lpc = [t \in LogThreads |-> "idle"]
    /\ larg = [t \in LogThreads |-> NoArg]
    /\ lentry = [t \in LogThreads |-> NoEntry]
    /\ lret = [op |-> "none"]
    /\ integrityFailed = FALSE
    /\ tampered = 0

(* Meta-discussion state (Integration)                                     *)

conversationHistoryLimit == 10

\* One receive loop per subscription: handleAntennaeMessages for the static
\* meta topic, handleDynamicMessages for a joined per-task topic. Both call
\* the same AntennaeMessageHandler.
Handlers == {"static", "dynamic"}

\* Texts are sequences of characters.
LooksGood == <<"l", "o", "o", "k", "s", " ", "g", "o", "o", "d">>
IAmStuck == <<"i", " ", "a", "m", " ", "s", "t", "u", "c", "k">>
NeedHELP == <<"N", "e", "e", "d", " ", "H", "E", "L", "P">>
ManualReview == <<"m", "a", "n", "u", "a", "l", " ", "r", "e", "v", "i", "e", "w">>
NoResponse == <<>>

\* Texts returned by reasoning.GenerateResponse
Responses == {LooksGood, IAmStuck, NeedHELP, ManualReview}

escalationKeywords ==
    { <<"s", "t", "u", "c", "k">>,
      <<"h", "e", "l", "p">>,
      <<"h", "u", "m", "a", "n">>,
      <<"e", "s", "c", "a", "l", "a", "t", "e">>,
      <<"c", "l", "a", "r", "i", "f", "i", "c", "a", "t", "i", "o", "n", " ", "n", "e", "e", "d", "e", "d">>,
      <<"m", "a", "n", "u", "a", "l", " ", "i", "n", "t", "e", "r", "v", "e", "n", "t", "i", "o", "n">> }

\* strings.ToLower, on the letters that occur in the texts of the model
LowerOf(c) ==
    CASE c = "H" -> "h" [] c = "E" -> "e" [] c = "L" -> "l" [] c = "P" -> "p" [] c = "N" -> "n"
      [] c = "A" -> "a" [] c = "G" -> "g" [] c = "R" -> "r" [] c = "D" -> "d" [] c = "I" -> "i"
      [] OTHER -> c
ToLower(str) == [k \in 1..Len(str) |-> LowerOf(str[k])]

\* strings.Contains
Contains(str, substr) ==
    \E k \in 1..(Len(str) - Len(substr) + 1) : SubSeq(str, k, k + Len(substr) - 1) = substr

ContainsKeyword(response, keyword) == Contains(response, keyword)

shouldEscalateNoFold(response, history) ==
    \/ \E keyword \in escalationKeywords : ContainsKeyword(response, keyword)
    \/ Len(history) >= conversationHistoryLimit

shouldEscalate(response, history) ==
    \/ \E keyword \in escalationKeywords : ContainsKeyword(ToLower(response), keyword)
    \/ Len(history) >= conversationHistoryLimit

NoConversation == [exists |-> FALSE, History |-> <<>>, IsEscalated |-> FALSE]
NothingPublished == [plan |-> 0, response |-> 0, escalation |-> 0]

MetaInit ==
    /\ activeDiscussions = [i \in Items |-> NoConversation]
    /\ hpc = [h \in Handlers |-> "idle"]
    /\ hconvo = [h \in Handlers |-> 0]
    /\ hresp = [h \in Handlers |-> NoResponse]
    /\ received = 0
    /\ published = [i \in Items |-> NothingPublished]
    /\ escalations = [i \in Items |-> 0]
    /\ posts = [i \in Items |-> 0]

\* Topics: the two static ones and one per item.
BzzzTopic == [kind |-> "bzzz", item |-> 0]
AntennaeTopic == [kind |-> "antennae", item |-> 0]
DynamicTopic(i) == [kind |-> "issue", item |-> i]
Topics == {BzzzTopic, AntennaeTopic} \cup {DynamicTopic(i) : i \in Items}

\* Options given to pubsub.NewGossipSub
WithMessageSigning == TRUE
StrictVerificationOff == FALSE
WithStrictSignatureVerification == TRUE

\* gossipsub hands a message to the subscriptions only if it passes validation.
PassesValidation(signed) == WithStrictSignatureVerification => signed

PubInit ==
    /\ inflight = {}
    /\ invoked = {}
    /\ outbox = {}
    /\ pubSeq = 0
    /\ rejected = 0

----------------------------------------------------------------------------
(* Startup: the capability memo (main.go)                                  *)

\* Go values held in a map[string]interface{}: a dynamic type and the content.
StringSlice(s) == [type |-> "[]string", val |-> s]
InterfaceSlice(s) == [type |-> "[]interface{}", val |-> s]
GoString(s) == [type |-> "string", val |-> <<s>>]
GoNil == [type |-> "nil", val |-> <<>>]

\* reflect.DeepEqual on two interface values: values of different dynamic
\* types are never deeply equal.
DeepEqual(a, b) == a.type = b.type /\ a.val = b.val

\* json.MarshalIndent followed by json.Unmarshal into map[string]interface{}:
\* a JSON array comes back as []interface{}, a JSON string as string.
jsonRoundTrip(v) ==
    IF v.type = "[]string" THEN InterfaceSlice(v.val) ELSE v

\* What the agent section of the configuration file can hold.
CapabilityLists == {<<"general">>, <<"general", "feature">>}
ModelLists == {<<"phi3">>, <<"phi3", "llama3">>}
Specializations == {"general", "dev"}
AgentConfigs ==
    [Capabilities : CapabilityLists, Models : ModelLists,
     Specialization : Specializations]

\* Result of detectAvailableOllamaModels: an error or the list of models.
Detections ==
    {[err |-> TRUE, models |-> <<>>]} \cup
    {[err |-> FALSE, models |-> l] : l \in {<<>>, <<"phi3">>, <<"llama3", "phi3">>}}

\* announceCapabilitiesOnChange, first part: cfg.Agent.Models after detection.
validModels(configured, available) ==
    LET valid == SelectSeq(configured,
                   LAMBDA m : \E k \in 1..Len(available) : available[k] = m)
    IN  IF Len(valid) = 0
        THEN IF Len(available) > 0 THEN <<available[1]>> ELSE <<>>
        ELSE valid

AgentModels(cfg, detected) ==
    IF detected.err THEN cfg.Models ELSE validModels(cfg.Models, detected.models)

\* The map currentCaps, restricted to the fields that are compared.
currentCaps(cfg, detected) ==
    [exists |-> TRUE,
     capabilities |-> StringSlice(cfg.Capabilities),
     models |-> StringSlice(AgentModels(cfg, detected)),
     specialization |-> GoString(cfg.Specialization)]

\* A nil map: no stored capabilities.
NoStoredCaps ==
    [exists |-> FALSE, capabilities |-> GoNil, models |-> GoNil,
     specialization |-> GoNil]

\* storeCapabilities then loadStoredCapabilities: the map as it comes back.
storeCapabilities(caps) ==
    [exists |-> TRUE,
     capabilities |-> jsonRoundTrip(caps.capabilities),
     models |-> jsonRoundTrip(caps.models),
     specialization |-> jsonRoundTrip(caps.specialization)]

capabilitiesChanged(current, stored) ==
    IF ~stored.exists THEN TRUE
    ELSE \/ ~DeepEqual(current.capabilities, stored.capabilities)
         \/ ~DeepEqual(current.models, stored.models)
         \/ ~DeepEqual(current.specialization, stored.specialization)

getChangeReason(current, stored) ==
    IF ~stored.exists THEN "startup"
    ELSE IF ~DeepEqual(current.models, stored.models) THEN "model_change"
    ELSE IF ~DeepEqual(current.capabilities, stored.capabilities) THEN "capability_change"
    ELSE IF ~DeepEqual(current.specialization, stored.specialization)
         THEN "specialization_change"
    ELSE "unknown_change"

NoRun ==
    [ran |-> FALSE, caps |-> NoStoredCaps, loaded |-> NoStoredCaps,
     reason |-> "none", sent |-> 0, pubErr |-> FALSE, stored |-> FALSE]

StartInit ==
    /\ capFile = NoStoredCaps
    /\ lastRun = NoRun

----------------------------------------------------------------------------
(* mDNS discovery (discovery package)                                      *)

\* make(chan peer.AddrInfo, 10)
peersChanCapacity == 10

\* Peers that mDNS can report: the host itself and its neighbours.
Advertisers == Peers \cup {LogNode}
NoPeer == "none"

\* The send case and the default case of the select in HandlePeerFound, with
\* the variant that makes room by discarding the head of the queue.
OfferDropOldest(ch, pi) ==
    IF Len(ch) < peersChanCapacity THEN Append(ch, pi) ELSE Append(Tail(ch), pi)
Offer(ch, pi) ==
    IF Len(ch) < peersChanCapacity THEN Append(ch, pi) ELSE ch

DiscInit ==
    /\ peersChan = <<>>
    /\ connected = {}
    /\ discoveryClosed = FALSE
    /\ lastFound = NoPeer
    /\ lastOutcome = "none"

----------------------------------------------------------------------------
(* Coordination sessions (MetaCoordinator)                                 *)

\* NewMetaCoordinator: 30 * time.Minute, in minutes
maxSessionDuration == 30
escalationThreshold == 10
\* cleanupInactiveSessions: 2 * time.Hour, in minutes
inactiveSessionAge == 120

\* Time advances in steps of TickMinutes. The age of a session and the time
\* since its last activity are counted in steps, up to the first count that
\* is past the limit they are compared with.
TickMinutes == 30
AgeCap == (maxSessionDuration \div TickMinutes) + 1
IdleCap == (inactiveSessionAge \div TickMinutes) + 1
MinOfTwo(a, b) == IF a < b THEN a ELSE b

\* Session ids are dep_<project>_<task>_<unix time>: one per session opened.
SessionIds == {"s1", "s2"}
Agents == {"a1", "a2"}

\* Texts sent in coordination sessions.
Agreed == <<"A", "G", "R", "E", "E">>
\* Plans returned by reasoning.GenerateResponse, and agents' responses.
CoordinationPlans == {ManualReview, LooksGood}
AgentResponses == {Agreed, IAmStuck}

agreementKeywords ==
    { <<"a", "g", "r", "e", "e">>,
      <<"s", "o", "u", "n", "d", "s", " ", "g", "o", "o", "d">>,
      <<"a", "p", "p", "r", "o", "v", "e", "d">>,
      <<"l", "o", "o", "k", "s", " ", "g", "o", "o", "d">> }

\* The test evaluateSessionProgress makes on one message.
IsAgreementNoFold(content) ==
    \E keyword \in agreementKeywords : Contains(content, keyword)
IsAgreement(content) ==
    \E keyword \in agreementKeywords : Contains(ToLower(content), keyword)

MessageLimitExceeded == "Message limit exceeded - human intervention needed"
DurationExceeded == "Session duration exceeded - human intervention needed"
ConsensusReached == "Consensus reached among participants"

NoSession ==
    [present |-> FALSE, Type |-> "none", dep |-> <<>>, Participants |-> {},
     Messages |-> <<>>, Status |-> "none", age |-> 0, idle |-> 0,
     Resolution |-> "", EscalationReason |-> ""]

\* escalateSession / resolveSession, on the session
escalateSession(session, reason) ==
    [session EXCEPT !.Status = "escalated", !.EscalationReason = reason]
resolveSession(session, resolution) ==
    [session EXCEPT !.Status = "resolved", !.Resolution = resolution]

\* session.Messages[len-3:], or all of them when there are at most three
recentMessages(session) ==
    LET n == Len(session.Messages)
    IN  IF n > 3 THEN SubSeq(session.Messages, n - 2, n) ELSE session.Messages

agreementCount(session) ==
    Cardinality({k \in 1..Len(recentMessages(session)) :
                    IsAgreement(recentMessages(session)[k])})

\* time.Since(session.CreatedAt) > mc.maxSessionDuration
DurationOver(session) == session.age * TickMinutes > maxSessionDuration
\* time.Since(session.LastActivity) > 2*time.Hour
Inactive(session) == session.idle * TickMinutes > inactiveSessionAge

\* evaluateSessionProgress with the duration test made first.
evaluateDurationFirst(session) ==
    IF DurationOver(session)
    THEN escalateSession(session, DurationExceeded)
    ELSE IF Len(session.Messages) >= escalationThreshold
    THEN escalateSession(session, MessageLimitExceeded)
    ELSE IF agreementCount(session) >= Cardinality(session.Participants) - 1
    THEN resolveSession(session, ConsensusReached)
    ELSE session

evaluateSessionProgress(session) ==
    IF Len(session.Messages) >= escalationThreshold
    THEN escalateSession(session, MessageLimitExceeded)
    ELSE IF DurationOver(session)
    THEN escalateSession(session, DurationExceeded)
    ELSE IF agreementCount(session) >= Cardinality(session.Participants) - 1
    THEN resolveSession(session, ConsensusReached)
    ELSE session

\* handleCoordinationResponse goes on only for a session that is in the map
\* and active.
InMap(session) == session.present
IsActiveSession(session) == session.present /\ session.Status = "active"

\* The envelope broadcastToSession sends after evaluateSessionProgress, if any.
Outcome(n, sid, session) ==
    IF session.Status = "escalated"
    THEN {[node |-> n, session |-> sid, message_type |-> "escalation"]}
    ELSE IF session.Status = "resolved"
    THEN {[node |-> n, session |-> sid, message_type |-> "resolution"]}
    ELSE {}

\* cleanupInactiveSessions deletes the sessions for which this holds.
CleanedUpIfInactive(session) == Inactive(session)
CleanedUp(session) ==
    Inactive(session) \/ session.Status = "resolved" \/ session.Status = "escalated"

CoordInit ==
    /\ activeSessions = [n \in Nodes |-> [sid \in SessionIds |-> NoSession]]
    /\ broadcasts = {}

----------------------------------------------------------------------------
(* Dependency detection (DependencyDetector)                               *)

\* Titles of the tasks; descriptions are empty.
DefineUserAPI == <<"D", "e", "f", "i", "n", "e", " ", "u", "s", "e", "r", " ", "A", "P", "I">>
ImplementUserService ==
    <<"I", "m", "p", "l", "e", "m", "e", "n", "t", " ", "u", "s", "e", "r", " ", "s", "e", "r", "v", "i", "c", "e">>
ImplementUserAPI ==
    <<"I", "m", "p", "l", "e", "m", "e", "n", "t", " ", "u", "s", "e", "r", " ", "A", "P", "I">>

\* TaskContext of the claimed tasks: two repositories, two agents.
TaskContexts ==
    { [TaskID |-> 1, ProjectID |-> 1, Repository |-> "repoA",
       Title |-> DefineUserAPI, AgentID |-> "a1"],
      [TaskID |-> 2, ProjectID |-> 2, Repository |-> "repoB",
       Title |-> ImplementUserService, AgentID |-> "a2"],
      [TaskID |-> 3, ProjectID |-> 1, Repository |-> "repoA",
       Title |-> ImplementUserAPI, AgentID |-> "a1"] }

\* strings.ToLower(task.Title + " " + task.Description)
TaskText(tc) == ToLower(tc.Title \o <<" ">>)

HasAny(text, keywords) == \E keyword \in keywords : Contains(text, keyword)

apiWord == <<"a", "p", "i">>
implementWord == <<"i", "m", "p", "l", "e", "m", "e", "n", "t">>
dbKeywords ==
    { <<"d", "a", "t", "a", "b", "a", "s", "e">>,
      <<"s", "c", "h", "e", "m", "a">>,
      <<"m", "i", "g", "r", "a", "t", "i", "o", "n">>,
      <<"t", "a", "b", "l", "e">> }
configKeywords ==
    { <<"c", "o", "n", "f", "i", "g">>,
      <<"e", "n", "v", "i", "r", "o", "n", "m", "e", "n", "t">> }
secKeywords ==
    { <<"s", "e", "c", "u", "r", "i", "t", "y">>,
      <<"a", "u", "t", "h">>,
      <<"p", "e", "r", "m", "i", "s", "s", "i", "o", "n">>,
      <<"t", "o", "k", "e", "n">> }

\* initializeDependencyRules: the names of the rules, in order.
dependencyRules ==
    <<"API_Contract", "Database_Schema", "Configuration_Dependency", "Security_Compliance">>

\* The API_Contract validator with the test made in one direction only.
ApiContractOneWay(text1, text2) ==
    Contains(text1, apiWord) /\ Contains(text2, implementWord)
ApiContract(text1, text2) ==
    \/ Contains(text1, apiWord) /\ Contains(text2, implementWord)
    \/ Contains(text2, apiWord) /\ Contains(text1, implementWord)

\* rule.Validator(task1, task2)
Validator(rule, task1, task2) ==
    LET text1 == TaskText(task1)
        text2 == TaskText(task2)
    IN  CASE rule = "API_Contract" -> ApiContract(text1, text2)
          [] rule = "Database_Schema" ->
                HasAny(text1, dbKeywords) /\ HasAny(text2, dbKeywords)
          [] rule = "Configuration_Dependency" ->
                HasAny(text1, configKeywords) /\ HasAny(text2, configKeywords)
          [] rule = "Security_Compliance" ->
                HasAny(text1, secKeywords) /\ HasAny(text2, secKeywords)

\* The rules whose Validator matches, for each ordered pair of tasks.
matches ==
    [task1 \in TaskContexts, task2 \in TaskContexts |->
        {r \in 1..Len(dependencyRules) : Validator(dependencyRules[r], task1, task2)}]

\* TaskDependency values, as carried by a dependency_detected envelope.
Dependency(task1, task2, rule) ==
    [Task1 |-> task1, Task2 |-> task2, Relationship |-> rule]

\* detectDependencies(newTask): the dependencies it announces, given the
\* tasks known (newTask among them).
detectDependencies(known, newTask) ==
    { Dependency(newTask, existingTask, dependencyRules[r]) :
        <<existingTask, r>> \in
          { x \in known \X (1..Len(dependencyRules)) :
              /\ ~(x[1].TaskID = newTask.TaskID /\ x[1].ProjectID = newTask.ProjectID)
              /\ x[1].Repository # newTask.Repository
              /\ x[2] \in matches[newTask, x[1]] } }

\* The dependency_detected envelopes announceDependency publishes for the
\* dependencies found, as node n: none when PublishAntennaeMessage fails.
announceDependency(n, deps, pubOk) ==
    IF pubOk THEN SetToBag({[from |-> n, dep |-> d] : d \in deps}) ELSE EmptyBag

\* The copies of published envelopes that reach the nodes other than the
\* publisher: handleAntennaeMessages drops a node's own messages.
Deliveries(sent) ==
    LET copies == {[to |-> m, dep |-> e.dep] :
                      <<m, e>> \in {x \in Nodes \X BagToSet(sent) : x[1] # x[2].from}}
    IN  [c \in copies |->
            LET senders == {e \in BagToSet(sent) : e.dep = c.dep /\ e.from # c.to}
                tally[S \in SUBSET senders] ==
                    IF S = {} THEN 0
                    ELSE LET e == CHOOSE x \in S : TRUE
                         IN  sent[e] + tally[S \ {e}]
            IN  tally[senders]]

\* Envelopes a peer may send on its own account.
PeerDependencies ==
    { Dependency(t1, t2, "API_Contract") :
        <<t1, t2>> \in {x \in TaskContexts \X TaskContexts :
                          x[1].TaskID = 1 /\ x[2].TaskID \in {2, 3}} }

DepInit ==
    /\ knownTasks = [n \in Nodes |-> {}]
    /\ announced = EmptyBag
    /\ depInflight = EmptyBag

----------------------------------------------------------------------------
(* The process of a node: context, loops, model selection, workers         *)

\* The long-lived loops started by main, HiveIntegration.Start, NewPubSub,
\* NewMDNSDiscovery and NewMetaCoordinator.
LoopNames ==
    {"repositoryDiscoveryLoop", "taskPollingLoop", "announceAvailability",
     "statusReporter", "handleAntennaeMessages", "handleDiscoveredPeers",
     "sessionCleanupLoop"}

\* The loops whose wait is a select with <-ctx.Done(), or a sub.Next(ctx)
\* followed by a test of ctx.Err(). announceAvailability and statusReporter
\* wait on their ticker alone.
ObservesCancel(l) == l \notin {"announceAvailability", "statusReporter"}

\* reasoning: the models offered for selection and the webhook's answers.
ModelNames == {"phi3", "llama3"}
MaxCandidates == 3
CandidateLists == UNION {[1..k -> ModelNames] : k \in 0..MaxCandidates}
defaultModel == "default"
WebhookURLs == {"", "http://webhook"}
WebhookFailures == {"post error", "status not 200", "undecodable body"}
WebhookAnswers == ModelNames \cup {"mistral"}
WebhookOutcomes == WebhookFailures \cup WebhookAnswers

\* selectBestModel taking the webhook's answer without looking it up in the
\* candidates.
selectBestModelUnchecked(webhookURL, candidates, outcome) ==
    IF webhookURL = "" \/ Len(candidates) = 0
    THEN IF Len(candidates) > 0 THEN candidates[1] ELSE defaultModel
    ELSE IF outcome \in WebhookFailures THEN candidates[1]
    ELSE outcome
\* selectBestModel(availableModels, prompt) of package reasoning, with the
\* configured webhook URL and the outcome of the request as arguments.
selectBestModel(webhookURL, candidates, outcome) ==
    IF webhookURL = "" \/ Len(candidates) = 0
    THEN IF Len(candidates) > 0 THEN candidates[1] ELSE defaultModel
    ELSE IF outcome \in WebhookFailures THEN candidates[1]
    ELSE IF \E k \in 1..Len(candidates) : candidates[k] = outcome THEN outcome
    ELSE candidates[1]

NoSelection == [url |-> "", candidates |-> <<>>, outcome |-> "none", model |-> "none"]

\* Claimed tasks, by project and issue number: issue 7 exists in both projects.
ClaimedTasks ==
    { [ProjectID |-> 1, Number |-> 7], [ProjectID |-> 2, Number |-> 7],
      [ProjectID |-> 1, Number |-> 8] }

\* executor: const maxIterations
maxIterations == 10

\* The worker of one task before executor.ExecuteTask is called.
ExecStart ==
    [pc |-> "CreateSandbox", i |-> 0, lastCommandOutput |-> "", sandbox |-> "none",
     returned |-> "none"]

ProcInit ==
    /\ cancelled = FALSE
    /\ loops = [l \in LoopNames |-> "waiting"]
    /\ selection = NoSelection
    /\ rpc = [h \in Handlers |-> "idle"]
    /\ rmsg = [h \in Handlers |-> <<>>]
    /\ sessionEnvelopes = <<>>
    /\ joinedTopics = {}
    /\ topicWorkers = [t \in ClaimedTasks |-> "none"]
    /\ exec = ExecStart

Init ==
    /\ LogInit /\ ClaimInit /\ MetaInit /\ PubInit /\ StartInit /\ DiscInit
    /\ CoordInit /\ DepInit /\ ProcInit

\* h.mutex.Lock() succeeds only when no other holder has it.
LockIgnored(n) == TRUE
MutexAvailable(n) == mutex[n] = Free

\* A caller enters Append(logType, data).
AppendCall(t, logType, data) ==
    /\ lpc[t] = "idle"
    /\ Len(entries[LogNode]) + Cardinality({u \in LogThreads : lpc[u] # "idle"}) < MaxLog
    /\ lpc' = [lpc EXCEPT ![t] = "lock"]
    /\ larg' = [larg EXCEPT ![t] = [type |-> logType, data |-> data]]
    /\ UNCHANGED <<entries, headHash, replicators, mutex, lentry, lret, integrityFailed, tampered, claimVars, metaVars, pubVars, hostVars>>

\* h.mutex.Lock()
AppendLock(t) ==
    /\ lpc[t] = "lock"
    /\ MutexAvailable(LogNode)
    /\ mutex' = [mutex EXCEPT ![LogNode] = t]
    /\ lpc' = [lpc EXCEPT ![t] = "build"]
    /\ UNCHANGED <<entries, headHash, replicators, larg, lentry, lret, integrityFailed, tampered, claimVars, metaVars, pubVars, hostVars>>

\* index := len(h.entries); entry := LogEntry{...}; hash; signature
AppendBuild(t, now) ==
    /\ lpc[t] = "build"
    /\ lentry' = [lentry EXCEPT ![t] =
          BuildEntry(entries[LogNode], headHash[LogNode], LogNode, larg[t].type, larg[t].data, now)]
    /\ lpc' = [lpc EXCEPT ![t] = "commit"]
    /\ UNCHANGED <<entries, headHash, replicators, mutex, larg, lret, integrityFailed, tampered, claimVars, metaVars, pubVars, hostVars>>

\* h.entries = append(...); h.headHash = entryHash; return (deferred Unlock)
AppendCommit(t) ==
    /\ lpc[t] = "commit"
    /\ entries' = [entries EXCEPT ![LogNode] = StoreEntry(@, lentry[t])]
    /\ headHash' = [headHash EXCEPT ![LogNode] = NewHead(@, lentry[t])]
    /\ mutex' = [mutex EXCEPT ![LogNode] = IF @ = t THEN Free ELSE @]
    /\ lpc' = [lpc EXCEPT ![t] = "idle"]
    /\ larg' = [larg EXCEPT ![t] = NoArg]
    /\ lentry' = [lentry EXCEPT ![t] = NoEntry]
    /\ lret' = [op |-> "Append", err |-> "nil", val |-> lentry[t].index]
    /\ UNCHANGED <<replicators, integrityFailed, tampered, claimVars, metaVars, pubVars, hostVars>>

\* Readers take h.mutex.RLock(): they run while no writer holds the mutex.
Get(index) ==
    /\ MutexAvailable(LogNode)
    /\ lret' = [op |-> "Get"] @@ GetEntry(entries[LogNode], index)
    /\ UNCHANGED <<entries, headHash, replicators, mutex, lpc, larg, lentry, integrityFailed, tampered, claimVars, metaVars, pubVars, hostVars>>

Length ==
    /\ MutexAvailable(LogNode)
    /\ lret' = [op |-> "Length", err |-> "nil", val |-> Len(entries[LogNode])]
    /\ UNCHANGED <<entries, headHash, replicators, mutex, lpc, larg, lentry, integrityFailed, tampered, claimVars, metaVars, pubVars, hostVars>>

GetRange(start, end) ==
    /\ MutexAvailable(LogNode)
    /\ lret' = [op |-> "GetRange"] @@ GetRangeOf(entries[LogNode], start, end)
    /\ UNCHANGED <<entries, headHash, replicators, mutex, lpc, larg, lentry, integrityFailed, tampered, claimVars, metaVars, pubVars, hostVars>>

GetEntriesByType(logType) ==
    /\ MutexAvailable(LogNode)
    /\ lret' = [op |-> "GetEntriesByType", err |-> "nil",
                val |-> EntriesByType(entries[LogNode], logType)]
    /\ UNCHANGED <<entries, headHash, replicators, mutex, lpc, larg, lentry, integrityFailed, tampered, claimVars, metaVars, pubVars, hostVars>>

GetEntriesByAuthor(author) ==
    /\ MutexAvailable(LogNode)
    /\ lret' = [op |-> "GetEntriesByAuthor", err |-> "nil",
                val |-> EntriesByAuthor(entries[LogNode], author)]
    /\ UNCHANGED <<entries, headHash, replicators, mutex, lpc, larg, lentry, integrityFailed, tampered, claimVars, metaVars, pubVars, hostVars>>

VerifyIntegrityCall ==
    /\ MutexAvailable(LogNode)
    /\ LET r == VerifyIntegrity(entries[LogNode])
       IN  /\ lret' = [op |-> "VerifyIntegrity", err |-> r.err, val |-> r.index]
           /\ integrityFailed' = (integrityFailed \/ r.err # "nil")
    /\ UNCHANGED <<entries, headHash, replicators, mutex, lpc, larg, lentry, tampered, claimVars, metaVars, pubVars, hostVars>>

AddReplicator(p) ==
    /\ MutexAvailable(LogNode)
    /\ replicators' = [replicators EXCEPT ![LogNode] = @ \cup {p}]
    /\ lret' = [op |-> "AddReplicator"]
    /\ UNCHANGED <<entries, headHash, mutex, lpc, larg, lentry, integrityFailed, tampered, claimVars, metaVars, pubVars, hostVars>>

RemoveReplicator(p) ==
    /\ MutexAvailable(LogNode)
    /\ replicators' = [replicators EXCEPT ![LogNode] = @ \ {p}]
    /\ lret' = [op |-> "RemoveReplicator"]
    /\ UNCHANGED <<entries, headHash, mutex, lpc, larg, lentry, integrityFailed, tampered, claimVars, metaVars, pubVars, hostVars>>

NextLog ==
    \/ \E t \in LogThreads, ty \in AppendTypes, d \in LogData : AppendCall(t, ty, d)
    \/ \E t \in LogThreads : AppendLock(t)
    \/ \E t \in LogThreads, now \in Times : AppendBuild(t, now)
    \/ \E t \in LogThreads : AppendCommit(t)
    \/ \E i \in 0..MaxLog : Get(i)
    \/ Length
    \/ \E s \in 0..MaxLog, e \in 0..MaxLog : GetRange(s, e)
    \/ \E ty \in AppendTypes : GetEntriesByType(ty)
    \/ \E a \in Nodes : GetEntriesByAuthor(a)
    \/ VerifyIntegrityCall
    \/ \E p \in Peers : AddReplicator(p)
    \/ \E p \in Peers : RemoveReplicator(p)

SpecLog == Init /\ [][NextLog]_vars

\* Append as one step: the body runs from Lock to the deferred Unlock, so no
\* other operation on the same log can observe it half done.
LogAppended(n, logType, data, now) ==
    AppendLog(entries[n], headHash[n], n, logType, data, now)

AppendAtomic(logType, data, now) ==
    /\ MutexAvailable(LogNode)
    /\ Len(entries[LogNode]) < MaxLog
    /\ LET r == LogAppended(LogNode, logType, data, now)
       IN  /\ entries' = [entries EXCEPT ![LogNode] = r.entries]
           /\ headHash' = [headHash EXCEPT ![LogNode] = r.headHash]
           /\ lret' = [op |-> "Append", err |-> "nil", val |-> r.entry.index]
    /\ UNCHANGED <<replicators, mutex, lpc, larg, lentry, integrityFailed, tampered, claimVars, metaVars, pubVars, hostVars>>

\* Get returns &h.entries[index], a pointer into the log's own slice: a caller
\* holding it can write a field of the stored entry, outside the mutex.
Tamper(index, field, v) ==
    /\ tampered < MaxTamper
    /\ index < Len(entries[LogNode])
    /\ entries[LogNode][index + 1][field] # v
    /\ entries' = [entries EXCEPT ![LogNode][index + 1][field] = v]
    /\ tampered' = tampered + 1
    /\ UNCHANGED <<headHash, replicators, mutex, lpc, larg, lentry, lret, integrityFailed, claimVars, metaVars, pubVars, hostVars>>

\* The log with its appender, the verifier, and writes through Get's pointer.
NextLogT ==
    \/ \E ty \in AppendTypes, d \in LogData, now \in Times : AppendAtomic(ty, d, now)
    \/ VerifyIntegrityCall
    \/ \E i \in 0..MaxLog, d \in LogData : Tamper(i, "data", d)
    \/ \E i \in 0..MaxLog : Tamper(i, "hash", EmptyHash)
    \/ \E i \in 0..MaxLog : Tamper(i, "prev_hash", EmptyHash)

SpecLogT == Init /\ [][NextLogT]_vars

----------------------------------------------------------------------------
(* Claim engine: repository sync, polling loop, ClaimTask, executeTask     *)

\* Client.ListAvailableTasks: open issues with no assignee.
AvailableTasks(project) ==
    {i \in Items : ProjectOf(i) = project /\ assignee[i] = NoAssignee}

canHandleTaskType(n, taskType) ==
    \E capability \in Capabilities(n) :
        capability = taskType \/ capability = "general" \/ capability = "task-coordination"

\* filterSuitableTasks over the tasks of one repository
SuitableTasks(n, project) ==
    {i \in AvailableTasks(project) : canHandleTaskType(n, TaskType(i))}

\* Issues are listed newest first (Sort "created", Direction "desc"); issue
\* numbers grow with creation, so the first of a repository is its largest.
FirstOf(S) == CHOOSE i \in S : \A j \in S : j <= i

\* suitableTasks[0]: the repositories are visited in map order, so the head of
\* the list is the first suitable task of any listed repository that has one.
HeadCandidates(n, listed) ==
    {FirstOf(SuitableTasks(n, r)) : r \in {q \in listed : SuitableTasks(n, q) # {}}}

\* claimAndExecuteTask on an error of Client.ClaimTask: print and return.
OnClaimErrorFallThrough == "claimed"
OnClaimError == "wait"

TaskClaimedEntries(n, i) ==
    {k \in 1..Len(entries[n]) :
        entries[n][k].type = "task_claimed" /\ entries[n][k].data.task_id = i}

\* Per-item workers (executeTask goroutines) that have not returned.
ActiveWorkers(n) == {i \in Items : wpc[n][i] \in {"start", "sandbox", "pr"}}

\* hlog.Append(...) of node n, as one step under the log's mutex.
NodeAppend(n, logType, i, now) ==
    LET r == LogAppended(n, logType, [task_id |-> i], now)
    IN  /\ entries' = [entries EXCEPT ![n] = r.entries]
        /\ headHash' = [headHash EXCEPT ![n] = r.headHash]

\* syncRepositories after a successful GetActiveRepositories that returned
\* the projects `active`: clients are created for new ones, removed for the rest.
syncRepositories(n, active) ==
    /\ repositories[n] # active
    /\ repositories' = [repositories EXCEPT ![n] = active]
    /\ UNCHANGED <<trackerVars, pc, task, claimErr, wpc, dynamicTopics, logVars, metaVars, pubVars, hostVars>>

\* One tick of taskPollingLoop: pollAllRepositories up to the choice of
\* suitableTasks[0]. `listed` are the repositories whose listing succeeded.
pollAllRepositories(n, listed) ==
    /\ pc[n] = "wait"
    /\ listed \subseteq repositories[n]
    /\ HeadCandidates(n, listed) # {}
    /\ \E i \in HeadCandidates(n, listed) :
          task' = [task EXCEPT ![n] = i]
    /\ claimErr' = [claimErr EXCEPT ![n] = "nil"]
    /\ pc' = [pc EXCEPT ![n] = "claim"]
    /\ UNCHANGED <<trackerVars, repositories, wpc, dynamicTopics, logVars, metaVars, pubVars, hostVars>>

\* claimAndExecuteTask: repository lookup, then Client.ClaimTask up to the
\* check of issue.Assignee on the issue fetched by Issues.Get.
ClaimTaskGet(n, getOk) ==
    /\ pc[n] = "claim"
    /\ IF ProjectOf(task[n]) \notin repositories[n]
       THEN /\ pc' = [pc EXCEPT ![n] = "wait"]
            /\ task' = [task EXCEPT ![n] = 0]
            /\ UNCHANGED claimErr
       ELSE IF ~getOk
       THEN /\ claimErr' = [claimErr EXCEPT ![n] = "failed to get issue"]
            /\ pc' = [pc EXCEPT ![n] = OnClaimError]
            /\ UNCHANGED task
       ELSE IF assignee[task[n]] # NoAssignee
       THEN /\ claimErr' = [claimErr EXCEPT ![n] = "task already assigned"]
            /\ pc' = [pc EXCEPT ![n] = OnClaimError]
            /\ UNCHANGED task
       ELSE /\ pc' = [pc EXCEPT ![n] = "edit"]
            /\ UNCHANGED <<claimErr, task>>
    /\ UNCHANGED <<trackerVars, repositories, wpc, dynamicTopics, logVars, metaVars, pubVars, hostVars>>

\* Client.ClaimTask: Issues.Edit with the assignee and the in-progress label
\* (the claim comment and the task branch follow; their errors are ignored).
ClaimTaskEdit(n, editOk) ==
    /\ pc[n] = "edit"
    /\ IF editOk
       THEN /\ assignee' = [assignee EXCEPT ![task[n]] = githubAssignee]
            /\ pc' = [pc EXCEPT ![n] = "claimed"]
            /\ UNCHANGED claimErr
       ELSE /\ claimErr' = [claimErr EXCEPT ![n] = "failed to claim task"]
            /\ pc' = [pc EXCEPT ![n] = OnClaimError]
            /\ UNCHANGED assignee
    /\ UNCHANGED <<pulls, statusUpdates, repositories, task, wpc, dynamicTopics, logVars, metaVars, pubVars, hostVars>>

\* claimAndExecuteTask after the claim: log task_claimed, report the claim to
\* Hive (a remote call whose failure is only printed: no state of the node
\* depends on it), start the executeTask goroutine.
claimAndExecuteTask(n, now) ==
    /\ pc[n] = "claimed"
    /\ NodeAppend(n, "task_claimed", task[n], now)
    /\ wpc' = [wpc EXCEPT ![n][task[n]] = "start"]
    /\ pc' = [pc EXCEPT ![n] = "wait"]
    /\ task' = [task EXCEPT ![n] = 0]
    /\ UNCHANGED <<trackerVars, repositories, claimErr, dynamicTopics, logAux, metaVars, pubVars, hostVars>>

\* defer hi.pubsub.LeaveDynamicTopic(taskTopic): runs on every return of
\* executeTask; it cancels the subscription, on whose error the topic's
\* receive loop returns.
LeaveSkipped(topics, i) == topics
LeaveOnReturn(topics, i) == topics \ {i}

\* executeTask: JoinDynamicTopic(bzzz/meta/issue/<n>)
executeTaskJoin(n, i) ==
    /\ wpc[n][i] = "start"
    /\ dynamicTopics' = [dynamicTopics EXCEPT ![n] = @ \cup {i}]
    /\ wpc' = [wpc EXCEPT ![n][i] = "sandbox"]
    /\ UNCHANGED <<trackerVars, repositories, pc, task, claimErr, logVars, metaVars, pubVars, hostVars>>

\* executeTask: executor.ExecuteTask returns; on error log task_failed, leave
\* the topic (deferred) and return.
executeTaskSandbox(n, i, ok, now) ==
    /\ wpc[n][i] = "sandbox"
    /\ IF ok
       THEN /\ NodeAppend(n, "task_progress", i, now)
            /\ wpc' = [wpc EXCEPT ![n][i] = "pr"]
            /\ UNCHANGED dynamicTopics
       ELSE /\ NodeAppend(n, "task_failed", i, now)
            /\ dynamicTopics' = [dynamicTopics EXCEPT ![n] = LeaveOnReturn(@, i)]
            /\ wpc' = [wpc EXCEPT ![n][i] = "done"]
    /\ UNCHANGED <<trackerVars, repositories, pc, task, claimErr, logAux, metaVars, pubVars, hostVars>>

\* executeTask: CreatePullRequest, then task_completed and the status report
\* to Hive, or task_failed; the topic is left on return.
executeTaskPullRequest(n, i, ok, now) ==
    /\ wpc[n][i] = "pr"
    /\ IF ok
       THEN /\ pulls' = pulls \cup {i}
            /\ statusUpdates' = statusUpdates \cup
                  {[node |-> n, item |-> i, status |-> "completed"]}
            /\ NodeAppend(n, "task_completed", i, now)
       ELSE /\ NodeAppend(n, "task_failed", i, now)
            /\ UNCHANGED <<pulls, statusUpdates>>
    /\ dynamicTopics' = [dynamicTopics EXCEPT ![n] = LeaveOnReturn(@, i)]
    /\ wpc' = [wpc EXCEPT ![n][i] = "done"]
    /\ UNCHANGED <<assignee, repositories, pc, task, claimErr, logAux, metaVars, pubVars, hostVars>>

NextClaim ==
    \/ \E n \in Nodes, active \in SUBSET Projects : syncRepositories(n, active)
    \/ \E n \in Nodes, listed \in SUBSET Projects : pollAllRepositories(n, listed)
    \/ \E n \in Nodes, getOk \in BOOLEAN : ClaimTaskGet(n, getOk)
    \/ \E n \in Nodes, editOk \in BOOLEAN : ClaimTaskEdit(n, editOk)
    \/ \E n \in Nodes, now \in Times : claimAndExecuteTask(n, now)
    \/ \E n \in Nodes, i \in Items : executeTaskJoin(n, i)
    \/ \E n \in Nodes, i \in Items, ok \in BOOLEAN, now \in Times : executeTaskSandbox(n, i, ok, now)
    \/ \E n \in Nodes, i \in Items, ok \in BOOLEAN, now \in Times :
          executeTaskPullRequest(n, i, ok, now)

SpecClaim == Init /\ [][NextClaim]_vars

----------------------------------------------------------------------------
(* Meta-discussion: conversations, escalation (Integration)                *)

\* PubSub.JoinDynamicTopic: subscribe and start the topic's receive loop.
JoinDynamicTopic(i) ==
    /\ i \notin dynamicTopics[LogNode]
    /\ dynamicTopics' = [dynamicTopics EXCEPT ![LogNode] = @ \cup {i}]
    /\ UNCHANGED <<logVars, trackerVars, repositories, pc, task, claimErr, wpc, metaVars, pubVars, hostVars>>

\* PubSub.LeaveDynamicTopic: cancel the subscription; a message already handed
\* to the handler is still processed to the end.
LeaveDynamicTopic(i) ==
    /\ i \in dynamicTopics[LogNode]
    /\ dynamicTopics' = [dynamicTopics EXCEPT ![LogNode] = @ \ {i}]
    /\ inflight' = {m \in inflight : m.topic # DynamicTopic(i)}
    /\ UNCHANGED <<logVars, trackerVars, repositories, pc, task, claimErr, wpc, metaVars,
                   invoked, outbox, pubSeq, rejected, hostVars>>

\* Integration.executeTask for a claimed task: generate a plan, open the
\* conversation with the plan as its first entry, publish the plan.
\* A node claims an issue at most once (claimed issues are no longer listed).
executeTaskPlan(i) ==
    /\ ~activeDiscussions[i].exists
    /\ activeDiscussions' = [activeDiscussions EXCEPT
            ![i] = [exists |-> TRUE, History |-> <<"plan">>, IsEscalated |-> FALSE]]
    /\ published' = [published EXCEPT ![i].plan = @ + 1]
    /\ UNCHANGED <<logVars, claimVars, pubVars, hpc, hconvo, hresp, received, escalations, posts, hostVars>>

\* handleMetaDiscussion, first part (under discussionLock): look the
\* conversation up, return if it is missing or escalated, else append the
\* incoming message to its history.
handleMetaDiscussionEnter(h, i) ==
    /\ hpc[h] = "idle"
    /\ h = "dynamic" => dynamicTopics[LogNode] # {}
    /\ received' = received + 1
    /\ IF ~activeDiscussions[i].exists \/ activeDiscussions[i].IsEscalated
       THEN UNCHANGED <<activeDiscussions, hpc, hconvo>>
       ELSE /\ activeDiscussions' = [activeDiscussions EXCEPT
                    ![i].History = Append(@, "response")]
            /\ hpc' = [hpc EXCEPT ![h] = "reasoning"]
            /\ hconvo' = [hconvo EXCEPT ![h] = i]
    /\ UNCHANGED <<logVars, claimVars, hresp, published, escalations, posts, hostVars>>

\* The handler called with a message for item i by receive loop h.
handleMetaDiscussionReceive(h, i) ==
    /\ handleMetaDiscussionEnter(h, i)
    /\ UNCHANGED pubVars

\* handleMetaDiscussion, second part: reasoning.GenerateResponse failed.
handleMetaDiscussionError(h) ==
    /\ hpc[h] = "reasoning"
    /\ hpc' = [hpc EXCEPT ![h] = "idle"]
    /\ hconvo' = [hconvo EXCEPT ![h] = 0]
    /\ hresp' = [hresp EXCEPT ![h] = NoResponse]
    /\ UNCHANGED <<logVars, claimVars, pubVars, activeDiscussions, received, published, escalations, posts, hostVars>>

\* handleMetaDiscussion, second part: reasoning.GenerateResponse returned
\* `response`; escalate (mark the conversation, start triggerHumanEscalation)
\* or publish the response.
handleMetaDiscussionRespond(h, response) ==
    /\ hpc[h] = "reasoning"
    /\ LET i == hconvo[h] IN
       IF shouldEscalate(response, activeDiscussions[i].History)
       THEN /\ activeDiscussions' = [activeDiscussions EXCEPT ![i].IsEscalated = TRUE]
            /\ escalations' = [escalations EXCEPT ![i] = @ + 1]
            /\ UNCHANGED published
       ELSE /\ published' = [published EXCEPT ![i].response = @ + 1]
            /\ UNCHANGED <<activeDiscussions, escalations>>
    /\ hpc' = [hpc EXCEPT ![h] = "idle"]
    /\ hconvo' = [hconvo EXCEPT ![h] = 0]
    /\ hresp' = [hresp EXCEPT ![h] = response]
    /\ UNCHANGED <<logVars, claimVars, pubVars, received, posts, hostVars>>

\* triggerHumanEscalation: announce the escalation on the meta topic, then
\* POST the payload to the webhook. `sent` is FALSE when the request could not
\* be sent; the returned status is only printed.
triggerHumanEscalation(i, sent) ==
    /\ escalations[i] > 0
    /\ escalations' = [escalations EXCEPT ![i] = @ - 1]
    /\ published' = [published EXCEPT ![i].escalation = @ + 1]
    /\ posts' = IF sent THEN [posts EXCEPT ![i] = @ + 1] ELSE posts
    /\ UNCHANGED <<logVars, claimVars, pubVars, activeDiscussions, hpc, hconvo, hresp, received, hostVars>>

NextMeta ==
    \/ \E i \in Items : JoinDynamicTopic(i)
    \/ \E i \in Items : LeaveDynamicTopic(i)
    \/ \E i \in Items : executeTaskPlan(i)
    \/ \E h \in Handlers, i \in Items : received < MaxMsgs /\ handleMetaDiscussionReceive(h, i)
    \/ \E h \in Handlers : handleMetaDiscussionError(h)
    \/ \E h \in Handlers, response \in Responses : handleMetaDiscussionRespond(h, response)
    \/ \E i \in Items, sent \in BOOLEAN : triggerHumanEscalation(i, sent)

SpecMeta == Init /\ [][NextMeta]_vars

\* One receive loop only (the static meta topic): messages are handled one
\* after another, and the reasoning backend returns texts without keywords.
NextSeq ==
    \/ \E i \in Items : executeTaskPlan(i)
    \/ \E i \in Items : received < MaxSeqMsgs /\ handleMetaDiscussionReceive("static", i)
    \/ handleMetaDiscussionRespond("static", LooksGood)
    \/ \E i \in Items, sent \in BOOLEAN : triggerHumanEscalation(i, sent)

SpecSeq == Init /\ [][NextSeq]_vars

\* One receive loop, any outcome of the reasoning backend; the node has claimed
\* one item, messages arrive for every item.
NextEsc ==
    \/ executeTaskPlan(1)
    \/ \E i \in Items : received < MaxSeqMsgs /\ handleMetaDiscussionReceive("static", i)
    \/ handleMetaDiscussionError("static")
    \/ \E response \in Responses : handleMetaDiscussionRespond("static", response)
    \/ \E i \in Items, sent \in BOOLEAN : triggerHumanEscalation(i, sent)

SpecEsc == Init /\ [][NextEsc]_vars

----------------------------------------------------------------------------
(* PubSub: publishing, validation, receive loops                           *)

Subscribed(topic) ==
    topic.kind = "issue" => topic.item \in dynamicTopics[LogNode]

\* PublishBzzzMessage / PublishAntennaeMessage / PublishToDynamicTopic by the
\* node: the envelope carries From = the node's id; gossipsub signs it and
\* also hands it to the node's own subscription. On the topic of an item the
\* node publishes envelopes about that item.
Publish(topic, i) ==
    /\ pubSeq < MaxPub
    /\ Subscribed(topic)
    /\ topic.kind = "issue" => topic.item = i
    /\ pubSeq' = pubSeq + 1
    /\ outbox' = outbox \cup {[topic |-> topic, issue |-> i]}
    /\ inflight' = inflight \cup
          {[topic |-> topic, from |-> LogNode, issue |-> i,
            receivedFrom |-> LogNode, signed |-> WithMessageSigning]}
    /\ UNCHANGED <<logVars, claimVars, metaVars, invoked, rejected, hostVars>>

\* A message reaches the node from peer p on a topic it is subscribed to. Its
\* envelope is p's own or a re-publication of one the node published.
PeerPublish(p, topic, from, i, signed) ==
    /\ pubSeq < MaxPub
    /\ Subscribed(topic)
    /\ from = LogNode => [topic |-> topic, issue |-> i] \in outbox
    /\ pubSeq' = pubSeq + 1
    /\ IF PassesValidation(signed)
       THEN /\ inflight' = inflight \cup
                  {[topic |-> topic, from |-> from, issue |-> i,
                    receivedFrom |-> p, signed |-> signed]}
            /\ UNCHANGED rejected
       ELSE /\ rejected' = rejected + 1
            /\ UNCHANGED inflight
    /\ UNCHANGED <<logVars, claimVars, metaVars, invoked, outbox, hostVars>>

\* The test every receive loop makes before decoding a message.
OwnMessage(m) == m.receivedFrom = LogNode

\* handleBzzzMessages: one iteration.
handleBzzzMessages(m, decodes) ==
    /\ m \in inflight /\ m.topic = BzzzTopic
    /\ inflight' = inflight \ {m}
    /\ invoked' = IF OwnMessage(m) \/ ~decodes THEN invoked ELSE invoked \cup {m}
    /\ UNCHANGED <<logVars, claimVars, metaVars, outbox, pubSeq, rejected, hostVars>>

\* handleAntennaeMessages: one iteration, up to the handler's first part.
handleAntennaeMessages(m, decodes) ==
    /\ m \in inflight /\ m.topic = AntennaeTopic
    /\ hpc["static"] = "idle"
    /\ inflight' = inflight \ {m}
    /\ IF OwnMessage(m) \/ ~decodes
       THEN UNCHANGED <<logVars, claimVars, metaVars, invoked, hostVars>>
       ELSE /\ invoked' = invoked \cup {m}
            /\ handleMetaDiscussionEnter("static", m.issue)
    /\ UNCHANGED <<outbox, pubSeq, rejected>>

\* handleDynamicMessages(sub) for the topic of item i: one iteration.
handleDynamicMessages(i, m, decodes) ==
    /\ m \in inflight /\ m.topic = DynamicTopic(i)
    /\ i \in dynamicTopics[LogNode]
    /\ hpc["dynamic"] = "idle"
    /\ inflight' = inflight \ {m}
    /\ IF OwnMessage(m) \/ ~decodes
       THEN UNCHANGED <<logVars, claimVars, metaVars, invoked, hostVars>>
       ELSE /\ invoked' = invoked \cup {m}
            /\ handleMetaDiscussionEnter("dynamic", m.issue)
    /\ UNCHANGED <<outbox, pubSeq, rejected>>

NextPub ==
    \/ \E i \in Items : JoinDynamicTopic(i)
    \/ \E i \in Items : LeaveDynamicTopic(i)
    \/ \E i \in Items : executeTaskPlan(i)
    \/ \E topic \in Topics, i \in Items : Publish(topic, i)
    \/ \E p \in Peers, topic \in Topics, from \in Peers \cup {LogNode}, i \in Items,
          signed \in BOOLEAN : PeerPublish(p, topic, from, i, signed)
    \/ \E m \in inflight, decodes \in BOOLEAN : handleBzzzMessages(m, decodes)
    \/ \E m \in inflight, decodes \in BOOLEAN : handleAntennaeMessages(m, decodes)
    \/ \E i \in Items, m \in inflight, decodes \in BOOLEAN : handleDynamicMessages(i, m, decodes)
    \/ \E h \in Handlers : handleMetaDiscussionError(h)
    \/ \E h \in Handlers : handleMetaDiscussionRespond(h, LooksGood)

SpecPub == Init /\ [][NextPub]_vars

\* The messaging layer alone: a node that has opened no conversation.
NextNet ==
    \/ \E i \in Items : JoinDynamicTopic(i)
    \/ \E i \in Items : LeaveDynamicTopic(i)
    \/ \E topic \in Topics, i \in Items : Publish(topic, i)
    \/ \E p \in Peers, topic \in Topics, from \in Peers \cup {LogNode}, i \in Items,
          signed \in BOOLEAN : PeerPublish(p, topic, from, i, signed)
    \/ \E m \in inflight, decodes \in BOOLEAN : handleBzzzMessages(m, decodes)
    \/ \E m \in inflight, decodes \in BOOLEAN : handleAntennaeMessages(m, decodes)
    \/ \E i \in Items, m \in inflight, decodes \in BOOLEAN : handleDynamicMessages(i, m, decodes)

SpecNet == Init /\ [][NextNet]_vars

----------------------------------------------------------------------------
(* Startup and discovery: actions                                          *)

\* announceCapabilitiesOnChange, one startup of the node. cfg is the agent
\* section of the configuration as loaded, detected the answer of Ollama;
\* loadOk, pubOk and storeOk say whether reading the memo, publishing and
\* writing the memo succeed.
announceCapabilitiesOnChange(cfg, detected, loadOk, pubOk, storeOk) ==
    LET current == currentCaps(cfg, detected)
        storedCaps == IF loadOk THEN capFile ELSE NoStoredCaps
        changed == capabilitiesChanged(current, storedCaps)
        didPublish == changed /\ pubOk
    IN  /\ lastRun' = [ran |-> TRUE, caps |-> current, loaded |-> storedCaps,
                       reason |-> IF changed THEN getChangeReason(current, storedCaps)
                                  ELSE "none",
                       sent |-> IF didPublish THEN 1 ELSE 0,
                       pubErr |-> changed /\ ~pubOk,
                       stored |-> didPublish /\ storeOk]
        /\ capFile' = IF didPublish /\ storeOk THEN storeCapabilities(current)
                      ELSE capFile
        /\ UNCHANGED <<logVars, claimVars, metaVars, pubVars, procVars, discVars, sessVars>>

NextStart ==
    \E cfg \in AgentConfigs, detected \in Detections,
       loadOk \in BOOLEAN, pubOk \in BOOLEAN, storeOk \in BOOLEAN :
        announceCapabilitiesOnChange(cfg, detected, loadOk, pubOk, storeOk)

SpecStart == Init /\ [][NextStart]_vars

\* mdnsNotifee.HandlePeerFound(pi). While the context is live the select
\* sends if the buffer has room and takes the default case otherwise. Once
\* Close has run, both <-ctx.Done() and the send on the closed channel are
\* ready: the call returns or panics, as the select picks.
HandlePeerFound(pi, pick) ==
    /\ lastOutcome # "panic"
    /\ lastFound' = pi
    /\ IF discoveryClosed
       THEN /\ lastOutcome' = pick
            /\ UNCHANGED peersChan
       ELSE /\ peersChan' = Offer(peersChan, pi)
            /\ lastOutcome' = IF Len(peersChan) < peersChanCapacity
                              THEN "queued" ELSE "skipped"
    /\ UNCHANGED <<logVars, claimVars, metaVars, pubVars, procVars, startVars, sessVars,
                   connected, discoveryClosed>>

\* handleDiscoveredPeers, one iteration of the receive case: entries still
\* buffered are received after Close as well.
handleDiscoveredPeers(connectOk) ==
    /\ lastOutcome # "panic"
    /\ Len(peersChan) > 0
    /\ peersChan' = Tail(peersChan)
    /\ LET peerInfo == Head(peersChan)
       IN  connected' =
              IF peerInfo = LogNode \/ peerInfo \in connected \/ ~connectOk
              THEN connected
              ELSE connected \cup {peerInfo}
    /\ UNCHANGED <<logVars, claimVars, metaVars, pubVars, procVars, startVars, sessVars,
                   discoveryClosed, lastFound, lastOutcome>>

\* A connection to a peer goes away.
Disconnected(p) ==
    /\ p \in connected
    /\ connected' = connected \ {p}
    /\ UNCHANGED <<logVars, claimVars, metaVars, pubVars, procVars, startVars, sessVars,
                   peersChan, discoveryClosed, lastFound, lastOutcome>>

\* MDNSDiscovery.Close: cancel the context and close the channel.
CloseDiscovery ==
    /\ lastOutcome # "panic"
    /\ ~discoveryClosed
    /\ discoveryClosed' = TRUE
    /\ UNCHANGED <<logVars, claimVars, metaVars, pubVars, procVars, startVars, sessVars,
                   peersChan, connected, lastFound, lastOutcome>>

NextDisc ==
    \/ \E pi \in Advertisers, pick \in {"returned", "panic"} : HandlePeerFound(pi, pick)
    \/ \E connectOk \in BOOLEAN : handleDiscoveredPeers(connectOk)
    \/ \E p \in Peers : Disconnected(p)
    \/ CloseDiscovery

SpecDisc == Init /\ [][NextDisc]_vars

----------------------------------------------------------------------------
(* Coordination sessions and dependency detection: actions                 *)

\* handleDependencyDetection: open a session for the dependency under a new
\* session id, then generateCoordinationPlan: on a plan from the reasoning
\* backend, append it as the first message and broadcast it.
handleDependencyDetection(n, sid, dep, planOk, plan) ==
    /\ ~activeSessions[n][sid].present
    /\ activeSessions' = [activeSessions EXCEPT ![n][sid] =
          [present |-> TRUE, Type |-> "dependency",
           dep |-> <<dep.Task1, dep.Task2>>,
           Participants |-> {dep.Task1.AgentID, dep.Task2.AgentID},
           Messages |-> IF planOk THEN <<plan>> ELSE <<>>,
           Status |-> "active", age |-> 0, idle |-> 0,
           Resolution |-> "", EscalationReason |-> ""]]
    /\ broadcasts' =
          IF planOk
          THEN broadcasts \cup
                 {[node |-> n, session |-> sid, message_type |-> "coordination_plan"]}
          ELSE broadcasts

\* A dependency_detected envelope sent by a peer reaches the coordinator.
PeerDependency(n, sid, dep, planOk, plan) ==
    /\ handleDependencyDetection(n, sid, dep, planOk, plan)
    /\ UNCHANGED <<logVars, claimVars, metaVars, pubVars, procVars, startVars, discVars, depVars>>

\* handleCoordinationResponse for a coordination_response that names session
\* sid: append the response, record the activity, evaluate the session.
handleCoordinationResponse(n, sid, response) ==
    LET session == activeSessions[n][sid]
        updated == evaluateSessionProgress(
                      [session EXCEPT !.Messages = Append(@, response), !.idle = 0])
    IN  /\ IF IsActiveSession(session)
           THEN /\ activeSessions' = [activeSessions EXCEPT ![n][sid] = updated]
                /\ broadcasts' = broadcasts \cup Outcome(n, sid, updated)
           ELSE UNCHANGED coordVars
        /\ UNCHANGED <<logVars, claimVars, metaVars, pubVars, procVars, startVars, discVars, depVars>>

\* handleSessionMessage: a session_message refreshes LastActivity.
handleSessionMessage(n, sid) ==
    /\ activeSessions[n][sid].present
    /\ activeSessions' = [activeSessions EXCEPT ![n][sid].idle = 0]
    /\ UNCHANGED <<logVars, claimVars, metaVars, pubVars, procVars, startVars, discVars, depVars,
                   broadcasts>>

\* cleanupInactiveSessions: one pass of the cleanup loop, under sessionLock.
cleanupInactiveSessions(n) ==
    /\ activeSessions' = [activeSessions EXCEPT ![n] =
          [sid \in SessionIds |-> IF @[sid].present /\ CleanedUp(@[sid])
                                  THEN NoSession ELSE @[sid]]]
    /\ UNCHANGED <<logVars, claimVars, metaVars, pubVars, procVars, startVars, discVars, depVars,
                   broadcasts>>

\* Time passes: TickMinutes more since CreatedAt and LastActivity. Both are
\* read of active sessions only, and are counted for these.
Tick ==
    /\ activeSessions' =
          [n \in Nodes |-> [sid \in SessionIds |->
              IF IsActiveSession(activeSessions[n][sid])
              THEN [activeSessions[n][sid] EXCEPT
                      !.age = MinOfTwo(@ + 1, AgeCap),
                      !.idle = MinOfTwo(@ + 1, IdleCap)]
              ELSE activeSessions[n][sid]]]
    /\ UNCHANGED <<logVars, claimVars, metaVars, pubVars, procVars, startVars, discVars, depVars,
                   broadcasts>>

\* The coordinator of one node, fed by its peers: the life of one session.
NextCoord ==
    \/ \E dep \in PeerDependencies, planOk \in BOOLEAN, plan \in CoordinationPlans :
            PeerDependency(LogNode, "s1", dep, planOk, plan)
    \/ \E response \in AgentResponses :
            handleCoordinationResponse(LogNode, "s1", response)
    \/ handleSessionMessage(LogNode, "s1")
    \/ cleanupInactiveSessions(LogNode)
    \/ Tick

SpecCoord == Init /\ [][NextCoord]_vars

\* The same with weak fairness of the clock and of the cleanup loop's ticker.
SpecCoordFair ==
    /\ SpecCoord
    /\ WF_vars(Tick)
    /\ WF_vars(cleanupInactiveSessions(LogNode))

\* The coordinator of one node with several sessions, whose participants
\* answer with an agreement.
NextClean ==
    \/ \E sid \in SessionIds, dep \in PeerDependencies, planOk \in BOOLEAN,
          plan \in CoordinationPlans :
            PeerDependency(LogNode, sid, dep, planOk, plan)
    \/ \E sid \in SessionIds : handleCoordinationResponse(LogNode, sid, Agreed)
    \/ \E sid \in SessionIds : handleSessionMessage(LogNode, sid)
    \/ cleanupInactiveSessions(LogNode)
    \/ Tick

SpecClean == Init /\ [][NextClean]_vars

\* RegisterTask: record the task tc under its key, then detectDependencies
\* against the tasks known and announce each dependency found.
RegisterTask(n, tc, pubOk) ==
    LET known == knownTasks[n] \cup {tc}
        sent == announceDependency(n, detectDependencies(known, tc), pubOk)
    IN  /\ BagCardinality(announced) + BagCardinality(sent) <= MaxAnnounced
        /\ knownTasks' = [knownTasks EXCEPT ![n] = known]
        /\ announced' = announced (+) sent
        /\ depInflight' = depInflight (+) Deliveries(sent)
        /\ UNCHANGED <<logVars, claimVars, metaVars, pubVars, procVars, startVars, discVars, coordVars>>

\* handleAntennaeMessages hands an envelope received from another node to
\* handleMetaMessage, which opens the session.
DeliverDependency(m, sid, planOk, plan) ==
    \E c \in BagToSet(depInflight) :
        /\ c.to = m
        /\ handleDependencyDetection(m, sid, c.dep, planOk, plan)
        /\ depInflight' = depInflight (-) SetToBag({c})
        /\ UNCHANGED <<logVars, claimVars, metaVars, pubVars, procVars, startVars, discVars,
                       knownTasks, announced>>

\* Detectors and coordinators of the nodes, joined by the meta-discussion topic.
NextDep ==
    \/ \E n \in Nodes, tc \in TaskContexts, pubOk \in BOOLEAN : RegisterTask(n, tc, pubOk)
    \/ \E m \in Nodes, sid \in SessionIds, planOk \in BOOLEAN, plan \in CoordinationPlans :
            DeliverDependency(m, sid, planOk, plan)

SpecDep == Init /\ [][NextDep]_vars

----------------------------------------------------------------------------
(* The long-lived loops and the cancellation of the context: actions       *)

otherThanLoops ==
    <<logVars, claimVars, metaVars, pubVars, startVars, discVars, sessVars,
      selection, raceVars, topicVars, exec>>

\* main returns after the signal: the deferred cancel() runs.
Cancel ==
    /\ ~cancelled
    /\ cancelled' = TRUE
    /\ UNCHANGED <<loops, otherThanLoops>>

\* The loop's ticker fires, or a message arrives: the body of the loop runs.
LoopWake(l) ==
    /\ loops[l] = "waiting"
    /\ loops' = [loops EXCEPT ![l] = "working"]
    /\ UNCHANGED <<cancelled, otherThanLoops>>

\* The body is done; the loop waits again.
LoopWait(l) ==
    /\ loops[l] = "working"
    /\ loops' = [loops EXCEPT ![l] = "waiting"]
    /\ UNCHANGED <<cancelled, otherThanLoops>>

\* The wait of the loop takes the cancellation: the loop returns.
LoopReturn(l) ==
    /\ cancelled
    /\ ObservesCancel(l)
    /\ loops[l] = "waiting"
    /\ loops' = [loops EXCEPT ![l] = "stopped"]
    /\ UNCHANGED <<cancelled, otherThanLoops>>

NextLoops ==
    \/ Cancel
    \/ \E l \in LoopNames : LoopWake(l)
    \/ \E l \in LoopNames : LoopWait(l)
    \/ \E l \in LoopNames : LoopReturn(l)

SpecLoops == Init /\ [][NextLoops]_vars

\* Every body ends, and a select for which the cancellation is ready again
\* and again takes it at some time.
SpecLoopsFair ==
    /\ SpecLoops
    /\ \A l \in LoopNames : WF_vars(LoopWait(l)) /\ SF_vars(LoopReturn(l))

\* A call of selectBestModel.
SelectModel(webhookURL, candidates, outcome) ==
    /\ selection' = [url |-> webhookURL, candidates |-> candidates, outcome |-> outcome,
                     model |-> selectBestModel(webhookURL, candidates, outcome)]
    /\ UNCHANGED <<logVars, claimVars, metaVars, pubVars, startVars, discVars, sessVars,
                   loopVars, raceVars, topicVars, exec>>

NextSelect ==
    \E webhookURL \in WebhookURLs, candidates \in CandidateLists, outcome \in WebhookOutcomes :
        SelectModel(webhookURL, candidates, outcome)

SpecSelect == Init /\ [][NextSelect]_vars

----------------------------------------------------------------------------
(* Workers and their dynamic topics, by issue number: actions              *)

otherThanTopics ==
    <<logVars, claimVars, metaVars, pubVars, startVars, discVars, sessVars,
      loopVars, selection, raceVars, exec>>

\* PubSub.JoinDynamicTopic("bzzz/meta/issue/<number>"): nothing to do when the
\* name is in p.dynamicTopics; else join and subscribe, which may fail.
JoinByNumber(topics, number, joinOk) ==
    IF number \in topics \/ ~joinOk THEN topics ELSE topics \cup {number}

\* PubSub.LeaveDynamicTopic("bzzz/meta/issue/<number>"), deferred by executeTask
LeaveByNumber(topics, workers, t) == topics \ {t.Number}

\* executeTask starts for claimed task t: the topic name is made of the
\* issue number alone; the error of JoinDynamicTopic is not looked at.
executeTaskStart(t, joinOk) ==
    /\ topicWorkers[t] = "none"
    /\ topicWorkers' = [topicWorkers EXCEPT ![t] = "ExecuteTask"]
    /\ joinedTopics' = JoinByNumber(joinedTopics, t.Number, joinOk)
    /\ UNCHANGED otherThanTopics

\* executor.ExecuteTask returned without error: on to the pull request.
executeTaskExecuted(t) ==
    /\ topicWorkers[t] = "ExecuteTask"
    /\ topicWorkers' = [topicWorkers EXCEPT ![t] = "CreatePullRequest"]
    /\ UNCHANGED <<joinedTopics, otherThanTopics>>

\* executeTask returns, after a failure or after the pull request: the
\* deferred LeaveDynamicTopic runs.
executeTaskReturn(t) ==
    /\ topicWorkers[t] \in {"ExecuteTask", "CreatePullRequest"}
    /\ topicWorkers' = [topicWorkers EXCEPT ![t] = "done"]
    /\ joinedTopics' = LeaveByNumber(joinedTopics, topicWorkers, t)
    /\ UNCHANGED otherThanTopics

NextTopics ==
    \/ \E t \in ClaimedTasks, joinOk \in BOOLEAN : executeTaskStart(t, joinOk)
    \/ \E t \in ClaimedTasks : executeTaskExecuted(t)
    \/ \E t \in ClaimedTasks : executeTaskReturn(t)

SpecTopics == Init /\ [][NextTopics]_vars

----------------------------------------------------------------------------
(* handleCoordinationResponse run by two receive loops at once: actions    *)

\* The static meta-discussion loop and the loop of a dynamic topic call the
\* same AntennaeMessageHandler, each in its own goroutine. The handler holds
\* sessionLock for the lookup in the map only; what follows works on the
\* session through the pointer, without a lock.
otherThanRace ==
    <<logVars, claimVars, metaVars, pubVars, startVars, discVars, depVars,
      loopVars, selection, topicVars, exec>>

\* Lookup under RLock, then the test of exists and of session.Status.
ResponseLookup(h, sid, response) ==
    /\ rpc[h] = "idle"
    /\ IF IsActiveSession(activeSessions[LogNode][sid])
       THEN /\ rpc' = [rpc EXCEPT ![h] = "append"]
            /\ rmsg' = [rmsg EXCEPT ![h] = response]
       ELSE UNCHANGED <<rpc, rmsg>>
    /\ UNCHANGED <<coordVars, sessionEnvelopes, otherThanRace>>

\* session.Messages = append(session.Messages, coordMessage); LastActivity
ResponseAppend(h, sid) ==
    /\ rpc[h] = "append"
    /\ activeSessions' = [activeSessions EXCEPT
          ![LogNode][sid].Messages = Append(@, rmsg[h]),
          ![LogNode][sid].idle = 0]
    /\ rpc' = [rpc EXCEPT ![h] = "evaluate"]
    /\ UNCHANGED <<broadcasts, rmsg, sessionEnvelopes, otherThanRace>>

\* evaluateSessionProgress(session), on the session as it is by now:
\* escalateSession and resolveSession set the status and broadcast, whatever
\* the status was.
ResponseEvaluate(h, sid) ==
    /\ rpc[h] = "evaluate"
    /\ LET session == activeSessions[LogNode][sid]
           verdict == evaluateSessionProgress([session EXCEPT !.Status = "active"])
       IN  IF verdict.Status = "active"
           THEN UNCHANGED <<coordVars, sessionEnvelopes>>
           ELSE /\ activeSessions' = [activeSessions EXCEPT ![LogNode][sid] = verdict]
                /\ broadcasts' = broadcasts \cup Outcome(LogNode, sid, verdict)
                /\ sessionEnvelopes' = Append(sessionEnvelopes,
                      [session |-> sid,
                       message_type |-> IF verdict.Status = "resolved"
                                        THEN "resolution" ELSE "escalation"])
    /\ rpc' = [rpc EXCEPT ![h] = "idle"]
    /\ rmsg' = [rmsg EXCEPT ![h] = <<>>]
    /\ UNCHANGED otherThanRace

NextRace ==
    \/ \E dep \in PeerDependencies, planOk \in BOOLEAN, plan \in CoordinationPlans :
            PeerDependency(LogNode, "s1", dep, planOk, plan)
    \/ \E h \in Handlers, response \in AgentResponses : ResponseLookup(h, "s1", response)
    \/ \E h \in Handlers : ResponseAppend(h, "s1")
    \/ \E h \in Handlers : ResponseEvaluate(h, "s1")

SpecRace == Init /\ [][NextRace]_vars

----------------------------------------------------------------------------
(* executor.ExecuteTask and HiveIntegration.executeTask around it: actions *)

otherThanExec ==
    <<logVars, claimVars, metaVars, pubVars, startVars, discVars, sessVars,
      loopVars, selection, raceVars, topicVars>>

\* Sandbox.DestroySandbox: errors of stopping and removing the container
\* are printed only, and no caller looks at the error returned.
DestroySandbox(state, destroyOk) ==
    IF destroyOk THEN "destroyed" ELSE "removal failed"

\* ExecuteTask returns an error after sb.DestroySandbox(); the caller logs
\* task_failed and returns.
ReturnError(e, destroyOk) ==
    [e EXCEPT !.sandbox = DestroySandbox(@, destroyOk), !.pc = "returned",
              !.returned = "task_failed"]

\* 1. sandbox.CreateSandbox
CreateSandbox(ok) ==
    /\ exec.pc = "CreateSandbox"
    /\ exec' = IF ok THEN [exec EXCEPT !.sandbox = "live", !.pc = "clone"]
               ELSE [exec EXCEPT !.pc = "returned", !.returned = "task_failed"]
    /\ UNCHANGED otherThanExec

\* 2. git clone, and after the loop: checkout -b, add, commit, push. Each is
\* a RunCommand whose error ends ExecuteTask.
StepsInOrder == <<"clone", "generate", "run", "checkout", "add", "commit", "push", "CreatePullRequest">>
StepAfter(step) ==
    StepsInOrder[1 + CHOOSE k \in 1..Len(StepsInOrder) : StepsInOrder[k] = step]

RunStep(ok, destroyOk) ==
    /\ exec.pc \in {"clone", "checkout", "add", "commit", "push"}
    /\ exec' = IF ok
               THEN [exec EXCEPT !.pc = StepAfter(@)]
               ELSE ReturnError(exec, destroyOk)
    /\ UNCHANGED otherThanExec

\* 3a/3b. generateNextCommand at the head of an iteration, or the end of the
\* loop after maxIterations.
GenerateNextCommand(answer, destroyOk) ==
    /\ exec.pc = "generate"
    /\ exec' = IF exec.i >= maxIterations THEN [exec EXCEPT !.pc = "checkout"]
               ELSE IF answer = "error" THEN ReturnError(exec, destroyOk)
               ELSE IF answer = "TASK_COMPLETE" THEN [exec EXCEPT !.pc = "checkout"]
               ELSE [exec EXCEPT !.pc = "run"]
    /\ UNCHANGED otherThanExec

\* 3c for a failed command: RunCommand returns a nil result with every
\* error, and result.StdOut is read to build the output fed back: nil pointer
\* dereference, before lastCommandOutput is assigned.
FailedCommand(e) ==
    [e EXCEPT !.pc = "panicked", !.returned = "panic"]

\* 3c/3d. sb.RunCommand(nextCommand) in the loop.
RunCommandInLoop(ok) ==
    /\ exec.pc = "run"
    /\ exec' = IF ok
               THEN [exec EXCEPT !.lastCommandOutput = "Stdout", !.i = @ + 1,
                                 !.pc = "generate"]
               ELSE FailedCommand(exec)
    /\ UNCHANGED otherThanExec

\* HiveIntegration.executeTask after ExecuteTask returned a branch: create
\* the pull request, log the outcome, return.
CreatePullRequest(ok) ==
    /\ exec.pc = "CreatePullRequest"
    /\ exec' = [exec EXCEPT !.pc = "returned",
                            !.returned = IF ok THEN "task_completed" ELSE "task_failed"]
    /\ UNCHANGED otherThanExec

NextExec ==
    \/ \E ok \in BOOLEAN : CreateSandbox(ok)
    \/ \E ok \in BOOLEAN, destroyOk \in BOOLEAN : RunStep(ok, destroyOk)
    \/ \E answer \in {"error", "TASK_COMPLETE", "command"}, destroyOk \in BOOLEAN :
            GenerateNextCommand(answer, destroyOk)
    \/ \E ok \in BOOLEAN : RunCommandInLoop(ok)
    \/ \E ok \in BOOLEAN : CreatePullRequest(ok)

SpecExec == Init /\ [][NextExec]_vars

----------------------------------------------------------------------------
(* Properties of the log                                                   *)

TheLog == entries[LogNode]

\* C5: in every log built only through Append (sequential or concurrent calls),
\* entry 0 has an empty prev_hash, every later entry's prev_hash is the hash of
\* its predecessor, every hash equals the hash recomputed from the entry's
\* fields without hash and signature, and VerifyIntegrity succeeds.
C5_AppendKeepsChain ==
    /\ Len(TheLog) >= 1 => TheLog[1].prev_hash = EmptyHash
    /\ \A i \in 2..Len(TheLog) : TheLog[i].prev_hash = TheLog[i - 1].hash
    /\ \A i \in 1..Len(TheLog) : TheLog[i].hash = calculateEntryHash(TheLog[i])
    /\ VerifyIntegrity(TheLog).err = "nil"

\* Two entries are stored while another Append call is blocked on the mutex
\* held by a running Append.
C5_Witness ==
    /\ Len(TheLog) >= 1
    /\ \E t, u \in LogThreads : t # u /\ lpc[t] = "lock" /\ lpc[u] = "commit" /\ mutex[LogNode] = u

\* C6: the entry stored at position k has index k (0, 1, 2, ... without gap or
\* duplicate), also with concurrent Append calls.
C6_IndexIsPosition ==
    \A k \in 1..Len(TheLog) : TheLog[k].index = k - 1

\* Two entries are stored and a third Append, called while the second was
\* running, is waiting for the mutex.
C6_Witness ==
    /\ Len(TheLog) >= 2
    /\ lret.op = "Append" /\ lret.val = Len(TheLog) - 1
    /\ \E t \in LogThreads : lpc[t] = "lock"

\* The positions whose prev_hash or hash does not match (0-based).
Mismatching(es) ==
    {i \in 0..(Len(es) - 1) :
        \/ es[i + 1].prev_hash # (IF i = 0 THEN EmptyHash ELSE es[i].hash)
        \/ es[i + 1].hash # calculateEntryHash(es[i + 1])}

MinOf(S) == CHOOSE x \in S : \A y \in S : x <= y

\* C7: once VerifyIntegrity has failed, every later Append is refused: no entry
\* is added and the head does not advance.
C7_AppendRefusedAfterFailure ==
    [][integrityFailed =>
         /\ Len(entries'[LogNode]) = Len(entries[LogNode])
         /\ headHash' = headHash]_vars

\* C8: VerifyIntegrity succeeds iff no entry has a mismatching prev_hash or
\* hash, and otherwise its error names the smallest mismatching index.
C8_VerifyFindsFirstMismatch ==
    LET r == VerifyIntegrity(TheLog)
    IN  /\ (r.err = "nil") <=> (Mismatching(TheLog) = {})
        /\ r.err # "nil" => r.index = MinOf(Mismatching(TheLog))

\* VerifyIntegrity has just reported an error on a log where two entries
\* mismatch, the first of them not at index 0.
C8_Witness ==
    /\ lret.op = "VerifyIntegrity" /\ lret.err # "nil"
    /\ lret.val = VerifyIntegrity(TheLog).index
    /\ lret.val >= 1
    /\ Cardinality(Mismatching(TheLog)) >= 2

\* C9: a successful Append lengthens the log by exactly one and keeps every
\* stored entry as it was; every other operation leaves the entries untouched.
C9_AppendOnly ==
    [][IF \E t \in LogThreads : lpc[t] = "commit" /\ lpc'[t] = "idle"
       THEN /\ Len(entries'[LogNode]) = Len(entries[LogNode]) + 1
            /\ SubSeq(entries'[LogNode], 1, Len(entries[LogNode])) = entries[LogNode]
       ELSE entries' = entries]_vars

\* A range query has returned two stored entries of a log of three.
C9_Witness ==
    /\ Len(TheLog) = 3
    /\ lret.op = "GetRange" /\ lret.err = "nil" /\ Len(lret.val) = 2

----------------------------------------------------------------------------
(* Properties of the claim engine                                          *)

\* C1: for every work item at most one task_claimed entry is ever appended
\* across all nodes, also when several nodes try to claim it concurrently.
C1_AtMostOneClaimEntry ==
    \A i \in Items :
        Cardinality({<<n, k>> \in Nodes \X (1..(3 * NumItems)) : k \in TaskClaimedEntries(n, i)}) <= 1

\* C2: on every node the number of running per-item workers never exceeds
\* max_tasks (a saturated node claims nothing and starts no worker).
C2_WorkersBounded ==
    \A n \in Nodes : Cardinality(ActiveWorkers(n)) <= MaxTasks

\* C10: when the tracker rejects a node's claim because the item is already
\* assigned, the node has no task_claimed entry and no worker for that item
\* and its polling loop is back at the poll ticker.
C10_RejectedClaimAbandoned ==
    \A n \in Nodes :
        claimErr[n] = "task already assigned" =>
            /\ pc[n] = "wait"
            /\ TaskClaimedEntries(n, task[n]) = {}
            /\ wpc[n][task[n]] = "none"

\* A node was rejected for an item that the other node claimed and logged.
C10_Witness ==
    \E n, m \in Nodes :
        /\ n # m
        /\ claimErr[n] = "task already assigned"
        /\ TaskClaimedEntries(m, task[n]) # {}
        /\ pc[n] = "wait"

\* C11: a per-item worker exists on a node only once the tracker has accepted
\* the assignment of the item and the node's log holds the task_claimed entry
\* for it.
C11_WorkerAfterAckAndLog ==
    \A n \in Nodes, i \in Items :
        wpc[n][i] # "none" =>
            /\ assignee[i] = githubAssignee
            /\ TaskClaimedEntries(n, i) # {}

\* A worker has just been started and has not taken a step yet.
C11_Witness ==
    \E n \in Nodes, i \in Items :
        /\ wpc[n][i] = "start"
        /\ pc[n] = "wait"
        /\ TaskClaimedEntries(n, i) # {}

----------------------------------------------------------------------------
(* Properties of the meta-discussion                                       *)

\* C3: once the conversation of an item is marked escalated, the node never
\* publishes another meta-discussion response for that item, however the
\* handlers of the static and of the dynamic topics interleave.
C3_NoResponseAfterEscalation ==
    [][\A i \in Items :
          activeDiscussions[i].IsEscalated =>
              published'[i].response = published[i].response]_vars

\* C4: for an item whose conversation escalates the node sends exactly one
\* POST to the escalation webhook, however many messages for the item are
\* handled concurrently: never a second one.
C4_OnePostPerEscalation ==
    \A i \in Items : posts[i] <= 1

\* Number of incoming messages recorded in a conversation (the plan is the
\* first entry of the history).
Incoming(i) == Len(activeDiscussions[i].History) - 1

\* C12: with messages handled one after another and no keyword in any
\* response, a conversation is escalated while handling its 10th incoming
\* message and not earlier, and a response was published for each of the
\* first nine.
C12_EscalatesAtTenthMessage ==
    \A i \in Items :
        activeDiscussions[i].IsEscalated =>
            /\ Incoming(i) = 10
            /\ published[i].response = 9

\* The generated texts that, lower-cased, contain an escalation keyword.
KeywordTexts == {IAmStuck, NeedHELP}

----------------------------------------------------------------------------
(* Properties of the messaging layer                                       *)

\* C14: no handler of the node is ever invoked with an envelope the node
\* itself published, on any topic, also when the envelope comes back through
\* another peer.
C14_OwnEnvelopesNeverHandled ==
    \A m \in invoked : m.from # LogNode

C16_TopicIsolation ==
    [][\A m \in invoked' \ invoked :
          m.topic.kind = "issue" =>
              /\ m.topic.item \in dynamicTopics[LogNode]
              /\ \A y \in Items \ {m.topic.item} :
                    activeDiscussions'[y] = activeDiscussions[y]]_vars

\* C17: handlers are idempotent on replay: an envelope delivered again leaves
\* the conversation as after its first delivery, so a conversation never
\* records more incoming utterances than distinct envelopes were handled for
\* its item.
C17_ReplayIdempotent ==
    \A i \in Items :
        activeDiscussions[i].exists =>
            Incoming(i) <= Cardinality({m \in invoked : m.issue = i})

----------------------------------------------------------------------------
(* Properties of startup and discovery                                     *)

\* The memo read by the last startup holds, field by field, the values the
\* startup runs with: it was written by an earlier startup with these values.
SameAsMemo ==
    /\ lastRun.ran /\ lastRun.loaded.exists
    /\ \A f \in {"capabilities", "models", "specialization"} :
          lastRun.caps[f].val = lastRun.loaded[f].val

\* C18: when a node is started twice in succession with the same
\* capabilities, models and specialization, the first startup (nothing
\* memoised yet, the publish call succeeds) publishes exactly one capability
\* broadcast and the second, which reads the memo of the first, none.
C18_UnchangedRestartSilent ==
    /\ (lastRun.ran /\ ~lastRun.loaded.exists /\ ~lastRun.pubErr) => lastRun.sent = 1
    /\ SameAsMemo => lastRun.sent = 0

\* The last startup read a memo from which its values differ in one field
\* only, and its publish call did not fail.
OnlyChanged(field) ==
    /\ lastRun.ran /\ lastRun.loaded.exists /\ ~lastRun.pubErr
    /\ \A f \in {"capabilities", "models", "specialization"} :
          (lastRun.caps[f].val # lastRun.loaded[f].val) <=> (f = field)

\* C19: when, against the memoised record, only the models differ, the
\* startup publishes exactly one broadcast with reason model_change; when
\* only the capabilities differ, exactly one with reason capability_change.
C19_ReasonMatchesChange ==
    /\ OnlyChanged("models") =>
          (lastRun.sent = 1 /\ lastRun.reason = "model_change")
    /\ OnlyChanged("capabilities") =>
          (lastRun.sent = 1 /\ lastRun.reason = "capability_change")

\* A step of HandlePeerFound taken while the channel is open and full.
PeerFoundWhileFull ==
    /\ ~discoveryClosed
    /\ Len(peersChan) = peersChanCapacity
    /\ <<lastFound, lastOutcome>>' # <<lastFound, lastOutcome>>

\* C20 as stated: an advertisement that arrives while the discovery channel
\* is full drops the oldest unconsumed entry and enqueues the new peer.
C20_FullChannelDropsOldest ==
    [][PeerFoundWhileFull => peersChan' = Append(Tail(peersChan), lastFound')]_vars

\* C20, as HandlePeerFound has it: an advertisement that arrives while the
\* discovery channel is full is the one skipped; the entries already queued
\* stay as they are.
C20_FullChannelSkipsNewPeer ==
    [][PeerFoundWhileFull =>
          (peersChan' = peersChan /\ lastOutcome' = "skipped")]_vars

\* A full channel, and the peer just advertised is not in it.
C20_Witness ==
    /\ lastOutcome = "skipped"
    /\ Len(peersChan) = peersChanCapacity
    /\ \A k \in 1..Len(peersChan) : peersChan[k] # lastFound

----------------------------------------------------------------------------
(* Properties of task selection and of the workers                         *)

\* Every item a polling cycle of node n could claim: unassigned, in an active
\* repository, of a type the node handles.
Candidates(n) ==
    UNION {SuitableTasks(n, r) : r \in repositories[n]}

\* C21: in every polling cycle the item for which the claim is attempted has
\* the highest priority among all candidates of all active repositories
\* that pass the capability filter.
C21_ClaimsHighestPriority ==
    [][\A n \in Nodes :
          (pc[n] = "wait" /\ pc'[n] = "claim") =>
              \A j \in Candidates(n) :
                  LabelPriority(task'[n]) >= LabelPriority(j)]_vars

C23_TerminalOutcomeReported ==
    \A n \in Nodes, i \in Items :
        wpc[n][i] = "done" =>
            \E u \in statusUpdates : u.node = n /\ u.item = i

----------------------------------------------------------------------------
(* Properties of the coordination sessions                                 *)

TheSession == activeSessions[LogNode]["s1"]

\* A step of handleCoordinationResponse that appends a message to session sid.
ResponseAppended(sid) ==
    /\ IsActiveSession(activeSessions[LogNode][sid])
    /\ activeSessions'[LogNode][sid].present
    /\ Len(activeSessions'[LogNode][sid].Messages) =
          Len(activeSessions[LogNode][sid].Messages) + 1

\* C24: when a coordination message is processed for an active session and
\* the session then holds at least escalationThreshold messages, the session
\* is escalated with the message-limit reason, whatever its age and whatever
\* its last messages say.
C24_MessageLimitFirst ==
    [][\A sid \in SessionIds :
          (ResponseAppended(sid) /\
           Len(activeSessions'[LogNode][sid].Messages) >= escalationThreshold)
          => /\ activeSessions'[LogNode][sid].Status = "escalated"
             /\ activeSessions'[LogNode][sid].EscalationReason = MessageLimitExceeded]_vars

\* Escalated for the message limit although the session was also past its
\* duration and its last message was an agreement.
C24_Witness ==
    /\ TheSession.Status = "escalated"
    /\ TheSession.EscalationReason = MessageLimitExceeded
    /\ TheSession.age * TickMinutes > maxSessionDuration
    /\ TheSession.Messages[Len(TheSession.Messages)] = Agreed

OverdueAndActive ==
    /\ TheSession.present
    /\ TheSession.Status = "active"
    /\ TheSession.age * TickMinutes > maxSessionDuration
EscalatedOrTimedOut == TheSession.Status \in {"escalated", "timed_out"}

\* C25: a session that is active and older than maxSessionDuration
\* eventually has the status escalated or timed_out, also when no further
\* coordination message arrives for it.
C25_OverdueSessionEscalates ==
    OverdueAndActive ~> EscalatedOrTimedOut

\* The texts of the model that hold an agreement word, in whatever case.
AgreeingTexts == {Agreed, LooksGood}
AgreeingRecent(session) ==
    Cardinality({k \in 1..Len(session.Messages) :
                    /\ k > Len(session.Messages) - 3
                    /\ session.Messages[k] \in AgreeingTexts})

C27_TerminalStatuses ==
    [][\A sid \in SessionIds :
          activeSessions[LogNode][sid].Status \in {"resolved", "escalated"}
          => \/ ~activeSessions'[LogNode][sid].present
             \/ /\ activeSessions'[LogNode][sid].Status =
                      activeSessions[LogNode][sid].Status
                /\ activeSessions'[LogNode][sid].Messages =
                      activeSessions[LogNode][sid].Messages]_vars

\* An escalated session that has since seen traffic: its last activity is
\* fresher than the session was when it was escalated.
C27_Witness ==
    /\ TheSession.Status = "escalated"
    /\ TheSession.age > 0
    /\ TheSession.idle = 0
    /\ TheSession.EscalationReason = DurationExceeded

\* What a cleanup pass is to remove.
Stale(session) ==
    \/ session.Status \in {"resolved", "escalated"}
    \/ session.idle * TickMinutes > inactiveSessionAge

\* C28: after each pass of the cleanup loop the map holds no resolved or
\* escalated session and none whose last activity is more than 2 hours old,
\* and every other session is still there, unchanged.
C28_CleanupPass ==
    [][cleanupInactiveSessions(LogNode) =>
          \A sid \in SessionIds :
              activeSessions'[LogNode][sid] =
                  IF activeSessions[LogNode][sid].present /\ Stale(activeSessions[LogNode][sid])
                  THEN NoSession
                  ELSE activeSessions[LogNode][sid]]_vars

\* A resolved session is gone from the map while an active one, older but
\* with recent activity, is still there.
C28_Witness ==
    \E sid, other \in SessionIds :
        /\ [node |-> LogNode, session |-> sid, message_type |-> "resolution"] \in broadcasts
        /\ ~activeSessions[LogNode][sid].present
        /\ IsActiveSession(activeSessions[LogNode][other])
        /\ activeSessions[LogNode][other].age > 0


----------------------------------------------------------------------------
(* Properties of dependency detection                                      *)

ApiTask == CHOOSE tc \in TaskContexts : tc.Title = DefineUserAPI
ImplementTask == CHOOSE tc \in TaskContexts : tc.Title = ImplementUserService

\* C29: registering "Define user API" and "Implement user service", claimed
\* in different repositories, publishes exactly one dependency_detected
\* envelope for the pair, with relationship API_Contract, whichever of the two
\* is registered first.
C29_OneApiContractEnvelope ==
    [][\A n \in Nodes :
        \A x \in {<<ApiTask, ImplementTask>>, <<ImplementTask, ApiTask>>} :
          (knownTasks[n] = {x[1]} /\ RegisterTask(n, x[2], TRUE))
          => announced' = announced (+)
                SetToBag({[from |-> n, dep |-> Dependency(x[2], x[1], "API_Contract")]})]_vars

\* Both orders of registration have happened, one on each node, and each
\* node has published its one envelope.
C29_Witness ==
    /\ knownTasks["n1"] = {ApiTask, ImplementTask}
    /\ knownTasks["n2"] = {ApiTask, ImplementTask}
    /\ BagToSet(announced) =
          {[from |-> "n1", dep |-> Dependency(ImplementTask, ApiTask, "API_Contract")],
           [from |-> "n2", dep |-> Dependency(ApiTask, ImplementTask, "API_Contract")]}
    /\ BagCardinality(announced) = 2

\* The sessions of type dependency open in the network for a pair of tasks.
SessionsFor(tasks) ==
    {x \in Nodes \X SessionIds :
        /\ activeSessions[x[1]][x[2]].present
        /\ activeSessions[x[1]][x[2]].Type = "dependency"
        /\ {activeSessions[x[1]][x[2]].dep[1], activeSessions[x[1]][x[2]].dep[2]} = tasks}

\* C30: a dependency that each node has announced at most once has at most
\* one coordination session open for it in the network, whatever the number
\* of nodes that announced it, and has one when none of its envelopes is still
\* on its way.
C30_OneSessionPerDependency ==
    \A e \in BagToSet(announced) :
        (\A f \in BagToSet(announced) :
            {f.dep.Task1, f.dep.Task2} = {e.dep.Task1, e.dep.Task2}
            => /\ announced[f] = 1
               /\ f.from = e.from => f = e)
        => /\ Cardinality(SessionsFor({e.dep.Task1, e.dep.Task2})) <= 1
           /\ (depInflight = EmptyBag =>
                  Cardinality(SessionsFor({e.dep.Task1, e.dep.Task2})) = 1)


----------------------------------------------------------------------------
(* Properties of the bounds on conversations and sessions                  *)

\* C34: the history of every conversation holds at most
\* conversationHistoryLimit utterances, whatever the number of incoming
\* messages and whether or not response generation succeeds.
C34_HistoryBounded ==
    \A i \in Items :
        Len(activeDiscussions[i].History) <= conversationHistoryLimit

\* C38: a session that is marked resolved holds at least one message with an
\* agreement keyword, also when it has a single participant.
C38_ResolvedOnlyOnAgreement ==
    \A sid \in SessionIds :
        activeSessions[LogNode][sid].Status = "resolved"
        => \E k \in 1..Len(activeSessions[LogNode][sid].Messages) :
              activeSessions[LogNode][sid].Messages[k] \in AgreeingTexts


----------------------------------------------------------------------------
(* Properties of shutdown and of model selection                           *)

AllLoopsStopped == \A l \in LoopNames : loops[l] = "stopped"

\* C31: after the shared cancellation signal is raised, every long-lived loop
\* of the node eventually terminates.
C31_LoopsTerminate == cancelled ~> AllLoopsStopped

\* The selection failed: no selector, a failed request, or an answer that is
\* not one of the candidates.
SelectionFailed ==
    \/ selection.url = ""
    \/ selection.outcome \in {"post error", "status not 200", "undecodable body"}
    \/ \A k \in 1..Len(selection.candidates) : selection.candidates[k] # selection.outcome

\* C33: whenever remote model selection fails and the candidate list is not
\* empty, the model selected is the first candidate.
C33_FallbackToFirst ==
    (selection # NoSelection /\ Len(selection.candidates) > 0 /\ SelectionFailed)
        => selection.model = selection.candidates[1]

\* The webhook answered with a model that is not offered, and the first of
\* two candidates was taken.
C33_Witness ==
    /\ selection.url # ""
    /\ selection.outcome = "mistral"
    /\ Len(selection.candidates) = 2
    /\ selection.model = selection.candidates[1]


----------------------------------------------------------------------------
(* Properties of the workers' topics                                       *)

WorkerRunning(workers, t) == workers[t] \in {"ExecuteTask", "CreatePullRequest"}

\* C35: while a worker is still running, the topic it has joined stays
\* joined: no step in which the worker keeps running removes its topic, also
\* when another worker with the same issue number in another project ends.
C35_RunningWorkerKeepsTopic ==
    [][\A t \in ClaimedTasks :
          (/\ WorkerRunning(topicWorkers, t)
           /\ WorkerRunning(topicWorkers', t)
           /\ t.Number \in joinedTopics)
          => t.Number \in joinedTopics']_vars


----------------------------------------------------------------------------
(* Properties of handlers that run at once                                 *)

\* C32: the fields of a session are read and written under the lock of the
\* map, so that no two handlers are at once in the part of
\* handleCoordinationResponse that reads and writes the same session.
C32_SessionAccessSerialised ==
    \A h1, h2 \in Handlers :
        (h1 # h2 /\ rpc[h1] \in {"append", "evaluate"})
            => rpc[h2] \notin {"append", "evaluate"}

\* C36: for each session at most one resolution or escalation envelope is
\* ever published, also when responses for it are handled at once.
C36_OneOutcomeEnvelope ==
    \A sid \in SessionIds :
        Cardinality({k \in 1..Len(sessionEnvelopes) : sessionEnvelopes[k].session = sid}) <= 1


----------------------------------------------------------------------------
(* Properties of the executor                                              *)

\* C39: when the worker of a task has terminated, the sandbox created for
\* the task has been destroyed, on the success path and on every failure
\* path.
C39_SandboxDestroyed ==
    exec.pc = "returned" => exec.sandbox # "live"

\* C40: when a command fails to run in the sandbox during the iteration
\* loop, the failure becomes the previous output fed back to the agent and
\* the loop goes on with its next iteration.
C40_FailedCommandFedBack ==
    [][RunCommandInLoop(FALSE) =>
          /\ exec'.pc = "generate"
          /\ exec'.i = exec.i + 1
          /\ exec'.lastCommandOutput = "Command failed"]_vars


----------------------------------------------------------------------------
(* Properties of the shutdown of discovery                                 *)

\* C37: a peer-advertisement callback that runs while or after discovery is
\* closed never sends on the closed channel: no call of HandlePeerFound ends
\* in a panic.
C37_NoSendOnClosedChannel == lastOutcome # "panic"

====
